---- MODULE Spec2Model ----
(***************************************************************************)
(* Brainbot command orchestrator (CommandService on BaseZMQServer), the    *)
(* mode manager that drives it from the dispatcher thread, and the edge    *)
(* CommandLoop that talks to it through CommandChannelClient.              *)
(*                                                                         *)
(* Two threads act on a CommandService: "rpc" runs CommandService.run      *)
(* (the REP loop and its handlers), "mode" runs ModeManager._handle_event  *)
(* for every event the dispatcher drains.  Code under `with self._lock`    *)
(* is entered only when the lock is free; everything else interleaves      *)
(* statement by statement.                                                 *)
(***************************************************************************)
EXTENDS Naturals, Integers, FiniteSets, Sequences, TLC

None == "None"

\* ---------------------------------------------------------- configuration
\* Provider registry built by run_command_service.main.
Providers == {"idle", "infer", "teleop"}

\* CommandService._default_key (config.default_mode).
DefaultKey == "teleop"

\* An alias that resolves to no registered provider.
UnknownKey == "ghost"

Keys == Providers \cup {UnknownKey}

Threads == {"rpc", "mode"}

\* CommandProvider.wants_full_observation of each registered provider.
WantsFull(k) == k = "infer"

\* Providers whose prepare() can raise (a teleop that cannot be reached).
PrepareMayRaise(k) == k = "teleop"

\* Providers whose compute_command can raise (nested RPC / inference timeouts).
ComputeMayRaise(k) == k \in {"infer", "teleop"}

\* Values an observation's robot mapping can hold: a number, or an ndarray
\* of the given rank.
ObsValues == {"scalar", "rank1", "rank3"}

IsArray(v) == v \in {"rank1", "rank3"}

Rank(v) == IF v = "rank1" THEN 1 ELSE IF v = "rank3" THEN 3 ELSE 0

\* Robot mappings a get_action request can carry.
Observations == SUBSET ObsValues

VARIABLES
    active_key,           \* CommandService._active_key
    prepared,             \* CommandService._prepared
    lock,                 \* owner of CommandService._lock, or None
    current_mode,         \* CommandService._current_mode
    hint,                 \* CommandService._current_observation_hint
    shutdown_requested,   \* CommandService._shutdown_requested
    shutdown_notified,    \* CommandService._shutdown_notified (Event)
    running,              \* BaseZMQServer.running
    pstate,               \* each provider's own lifecycle state
    paired,               \* no shutdown() hit an unprepared provider, no prepare() a prepared one
    pc,                   \* position of each thread
    ctx,                  \* what each thread's set_active_provider / _shutdown_active call is for
    sap_key,              \* key argument of each thread's set_active_provider call
    sap_prev,             \* the key that was active when the call took the lock
    rpc_req,              \* request being handled by the REP loop
    rpc_provider,         \* local `provider` of _handle_get_action
    rpc_result,           \* reply computed by the handler
    rpc_after_shutdown,   \* the request was received after initiate_shutdown returned
    computed,             \* compute_command invocation made for the current request
    status_delivered,     \* a shutdown status reply was put on the socket
    ai_instruction,       \* AICommandProvider._instruction
    mode_shutting_down,   \* ModeManager._shutting_down
    mode_result,          \* how the mode thread's last set_mode call ended
    ack,                  \* what the Shutdown handler reported: None, "ack", "timeout"
    api_token,            \* BaseZMQServer.api_token (None: not configured)
    rpc_unanswered,       \* requests received minus replies sent
    e_pc,                 \* position of the edge CommandLoop
    e_running,            \* CommandLoop._running
    e_fallback,           \* CommandLoop._fallback.actions (None: not configured)
    e_max_missed,         \* CommandLoop.max_missed_actions
    e_max_retries,        \* CommandChannelClient.max_retries
    e_sock,               \* the client's REQ socket: "ready" to send, or "awaiting" a reply
    e_missed,             \* CommandLoop._missed_actions
    e_raw,                \* what robot.get_observation() returned on this tick
    e_obs,                \* robot mapping of the observation built on this tick
    e_mode,               \* RobotControlService._current_observation_mode
    e_last,               \* RobotControlService._last_action
    e_attempt,            \* local `attempt` of compute_action
    e_reply,              \* kind of the reply compute_action got on this tick
    e_applied,            \* what apply_action was given on this tick
    e_exit,               \* how CommandLoop.run ended
    e_trail,              \* actions applied on the timed-out ticks since the last reply
    ai_pc,                \* position of the RPC thread inside AICommandProvider.compute_command
    ai_pending,           \* AICommandProvider._pending_actions
    ai_batches,           \* local `batches` of compute_command still to be appended
    ai_chunks,            \* number of the last chunk the inference server returned
    ai_inferred,          \* the current compute_command call has called the inference server
    ai_requested,         \* the instruction the latest inference request carried
    ai_returned,          \* what the last compute_command call returned
    dc_state,             \* DataCollectionCommandProvider._state
    dc_deadline,          \* _state_deadline: None, or "set" to some time
    dc_recording,         \* _recording_enabled
    dc_dataset,           \* _dataset is not None
    dc_events,            \* the flags of _events that are True
    dc_episodes,          \* _episodes_recorded
    dc_target,            \* _target_episodes
    dc_episode_ticks,     \* _episode_seconds, in ticks of the control loop
    dc_reset_ticks,       \* _reset_seconds, in ticks of the control loop
    dc_left,              \* ticks left until _state_deadline
    dc_buffer,            \* frames in the episode buffer of the dataset
    dc_sink,              \* num_episodes of the dataset on disk
    dc_ctx,               \* branch of _update_state each thread is finalizing in
    dc_ticks,             \* compute_command calls entered since prepare
    dc_pc,                \* position of each thread inside the provider
    md_pc,                \* position of each client thread of the socket dispatcher
    md_line,              \* the line each client thread is handling
    md_todo,              \* events enqueue_mode_command has still to put
    md_enq,               \* events put on the queue for the line
    md_out,               \* the response line the last step sent
    md_queue,             \* SocketModeDispatcher._queue
    md_count,             \* events put on the queue so far
    md_done,              \* events taken off the queue so far
    md_dpc,               \* position of the dispatcher thread
    md_event,             \* the event the listener is called with
    md_handled,           \* the branch of _handle_event the listener call is in
    md_shutting_down,     \* ModeManager._shutting_down as the listener sees it
    mf_window,            \* _MedianActionFilter._window_size
    mf_alpha,             \* _MedianLowPassFilter._alpha
    mf_buffers,           \* _MedianActionFilter._buffers
    mf_last,              \* _MedianLowPassFilter._last_output
    mf_in,                \* the action map of the latest apply call
    mf_out,               \* what the latest apply call returned
    cw_interval,          \* _CameraWorker.min_interval
    cw_latest,            \* _CameraWorker._latest (0: empty)
    cw_event,             \* _CameraWorker._event
    cw_stop,              \* _CameraWorker._stop
    cw_last_emit,         \* _CameraWorker._last_emit
    cw_pc,                \* position of the worker thread in _loop
    cw_frame,             \* the local `frame` of _loop (0: None)
    cw_stamp,             \* the timestamp of the payload being enqueued
    cw_now,               \* the wall clock
    cw_ppc,               \* position of the control loop inside publish
    cw_pnow,              \* the local `now` of publish
    cw_submitted,         \* frames handed to submit so far
    cw_queue              \* CameraStreamer._queue: timestamps of the payloads put

orch_vars == <<active_key, prepared, lock, current_mode, hint, shutdown_requested,
               shutdown_notified, running, pstate, paired, pc, ctx, sap_key, sap_prev,
               rpc_req, rpc_provider, rpc_result, rpc_after_shutdown, computed,
               status_delivered, ai_instruction, mode_shutting_down, mode_result,
               ack, api_token, rpc_unanswered>>

edge_vars == <<e_pc, e_running, e_fallback, e_max_missed, e_max_retries, e_sock,
               e_missed, e_raw, e_obs, e_mode, e_last, e_attempt, e_reply, e_applied,
               e_exit,
               e_trail>>

prov_vars == <<ai_pc, ai_pending, ai_batches, ai_chunks, ai_inferred, ai_requested, ai_returned,
               dc_state, dc_deadline, dc_recording, dc_dataset, dc_events, dc_episodes,
               dc_target, dc_episode_ticks, dc_reset_ticks, dc_left, dc_buffer,
               dc_sink, dc_ctx, dc_ticks, dc_pc>>

md_vars == <<md_pc, md_line, md_todo, md_enq, md_out, md_queue, md_count, md_done,
             md_dpc, md_event, md_handled, md_shutting_down>>

ctl_vars == <<mf_window, mf_alpha, mf_buffers, mf_last, mf_in, mf_out,
              cw_interval, cw_latest, cw_event, cw_stop, cw_last_emit, cw_pc,
              cw_frame, cw_stamp, cw_now, cw_ppc, cw_pnow, cw_submitted, cw_queue>>

vars == <<orch_vars, edge_vars, prov_vars, md_vars, ctl_vars>>

NoCompute == [key |-> None, prepared |-> TRUE]

NoReply == [kind |-> None, empty |-> FALSE, hint |-> None]

NoRequest == [endpoint |-> None, obs |-> {}, api_token |-> None]

ProcessAlive == pc["rpc"] # "exited"

\* ------------------------------------------------------------ edge settings
\* command_client.py:19: CommandChannelClient(max_retries=1).
MaxRetries == 1

\* command_loop.py:21: CommandLoop(max_missed_actions=3).
MaxMissedActions == 3

\* Actions the orchestrator can return, the empty action among them.
ReplyActions == {"a1", "a2", "empty"}

\* service.py:105 (edge): the observation modes set_observation_mode accepts.
ObservationModes == {"numeric", "full", "full_preprocessed"}

\* Hints a reply can carry ("other": anything set_observation_mode ignores).
Hints == ObservationModes \cup {"other"}

\* Largest max_retries and max_missed_actions the edge is configured with.
MaxRetriesCfg == 1

MaxMissedCfg == 2

\* Most timed-out ticks recorded in e_trail.
MaxTrail == 3

\* command_loop.py:16-34 and command_client.py:13-22: the settings the edge
\* process is started with.
EdgeSettings(retries, missed, fallback) ==
    /\ e_max_retries = retries
    /\ e_max_missed = missed
    /\ e_fallback = fallback

\* command_loop.py:25-34, service.py:94-96 (edge) and transport.py:171: the
\* loop, the robot service and the client socket after construction.
EdgeInit ==
    /\ e_pc = "tick"
    /\ e_running = TRUE
    /\ e_sock = "ready"
    /\ e_missed = 0
    /\ e_raw = {}
    /\ e_obs = {}
    /\ e_mode = "numeric"
    /\ e_last = "zero"
    /\ e_attempt = 0
    /\ e_reply = None
    /\ e_applied = None
    /\ e_exit = None
    /\ e_trail = <<>>

\* ------------------------------------------------------------------- Init
\* service.py:24-39 and mode_manager.py:21-27: the state after construction.
OrchInit ==
    /\ active_key = None
    /\ prepared = {}
    /\ lock = None
    /\ current_mode = DefaultKey
    /\ hint = "numeric"
    /\ shutdown_requested = FALSE
    /\ shutdown_notified = FALSE
    /\ running = TRUE
    /\ pstate = [k \in Providers |-> "Unprepared"]
    /\ paired = TRUE
    /\ pc = [t \in Threads |-> IF t = "rpc" THEN "run_start" ELSE "idle"]
    /\ ctx = [t \in Threads |-> None]
    /\ sap_key = [t \in Threads |-> None]
    /\ sap_prev = [t \in Threads |-> None]
    /\ rpc_req = NoRequest
    /\ rpc_provider = None
    /\ rpc_result = NoReply
    /\ rpc_after_shutdown = FALSE
    /\ computed = NoCompute
    /\ status_delivered = FALSE
    /\ ai_instruction = None
    /\ mode_shutting_down = FALSE
    /\ mode_result = None
    /\ ack = None
    /\ rpc_unanswered = 0

\* transport.py:83-90: BaseZMQServer(api_token=token).
ServerSettings(token) == api_token = token

\* ------------------------------------------- CommandService.set_active_provider
\* A set_active_provider without the registry check of service.py:94-95.
EntryDecisionWithoutKeyCheck(key, active, prep) ==
    IF key = active /\ key \in prep THEN "noop" ELSE "switch"

\* service.py:94-97: what set_active_provider decides on entry, under the lock.
EntryDecision(key, active, prep) ==
    IF key \notin Providers THEN "unknown"
    ELSE IF key = active /\ key \in prep THEN "noop"
    ELSE "switch"

\* Where a thread goes when its set_active_provider call ends with `res`
\* ("ok", "noop" or the exception raised), by caller:
\*   rpc/start     CommandService.run line 42 (outside the try: an exception leaves run)
\*   mode/teleop   ModeManager._handle_event lines 45-55 (ValueError is caught)
\*   mode/infer    lines 57-62 (nothing is caught: the dispatcher thread dies)
\*   mode/idle     lines 64-73 (ValueError is caught; clear_instruction follows set_mode)
\*   mode/shutdown lines 75-83 (ValueError is caught; initiate_shutdown follows)
AfterCall(t, c, res) ==
    IF t = "rpc" THEN (IF res \in {"ok", "noop"} THEN "loop" ELSE "raised")
    ELSE IF c = "teleop" THEN (IF res \in {"ok", "noop", "ValueError"} THEN "idle" ELSE "dead")
    ELSE IF c = "infer" THEN (IF res \in {"ok", "noop"} THEN "idle" ELSE "dead")
    ELSE IF c = "idle" THEN (IF res \in {"ok", "noop"} THEN "idle_clear"
                             ELSE IF res = "ValueError" THEN "idle" ELSE "dead")
    ELSE (IF res \in {"ok", "noop", "ValueError"} THEN "init_shutdown" ELSE "dead")

\* The call returns or raises: the thread moves on and the call's frame is gone.
EndCall(t, res) ==
    /\ pc' = [pc EXCEPT ![t] = AfterCall(t, ctx[t], res)]
    /\ ctx' = [ctx EXCEPT ![t] = None]
    /\ sap_key' = [sap_key EXCEPT ![t] = None]
    /\ sap_prev' = [sap_prev EXCEPT ![t] = None]
    /\ mode_result' = IF t = "mode" THEN res ELSE mode_result

\* _shutdown_active returns: back into set_active_provider (service.py:99), or,
\* from run's finally, on to self.close() (service.py:47).
ReturnFromShutdownActive(t) ==
    /\ pc' = [pc EXCEPT ![t] = IF t = "rpc" /\ ctx[t] = "exit" THEN "close" ELSE "prepare"]
    /\ UNCHANGED <<ctx, sap_key, sap_prev, mode_result>>

Release(t) == IF lock = t THEN None ELSE lock

\* service.py:93-98: acquire the lock, reject an unknown key, return when the
\* key is already active and prepared, else go on to _shutdown_active.
SetActiveEnter(t) ==
    /\ pc[t] = "sap_enter"
    /\ ProcessAlive
    /\ lock = None
    /\ LET d == EntryDecision(sap_key[t], active_key, prepared) IN
         IF d = "unknown" THEN EndCall(t, "ValueError") /\ lock' = lock
         ELSE IF d = "noop" THEN EndCall(t, "noop") /\ lock' = lock
         ELSE /\ pc' = [pc EXCEPT ![t] = "sa_check"]
              /\ lock' = t
              /\ sap_prev' = [sap_prev EXCEPT ![t] = active_key]
              /\ UNCHANGED <<ctx, sap_key, mode_result>>
    /\ UNCHANGED <<active_key, prepared, current_mode, hint, shutdown_requested,
                   shutdown_notified, running, pstate, paired, rpc_req, rpc_provider,
                   rpc_result, rpc_after_shutdown, computed, status_delivered,
                   ai_instruction, mode_shutting_down, ack, api_token, rpc_unanswered,
                   edge_vars, prov_vars, md_vars, ctl_vars>>

\* service.py:125: the guard of _shutdown_active.
ShutdownActiveCheck(t) ==
    /\ pc[t] = "sa_check"
    /\ ProcessAlive
    /\ IF active_key # None /\ active_key \in Providers
       THEN /\ pc' = [pc EXCEPT ![t] = "sa_call"]
            /\ UNCHANGED <<ctx, sap_key, sap_prev, mode_result>>
       ELSE ReturnFromShutdownActive(t)
    /\ UNCHANGED <<active_key, prepared, lock, current_mode, hint, shutdown_requested,
                   shutdown_notified, running, pstate, paired, rpc_req, rpc_provider,
                   rpc_result, rpc_after_shutdown, computed, status_delivered,
                   ai_instruction, mode_shutting_down, ack, api_token, rpc_unanswered,
                   edge_vars, prov_vars, md_vars, ctl_vars>>

\* service.py:126-127: look the active provider up again and call its shutdown().
\* The key read here can differ from the one the guard saw when the other thread
\* runs _shutdown_active without the lock (run's finally): None raises KeyError,
\* which leaves the `with` block (the lock is released) or run's finally.
ShutdownActiveCall(t) ==
    /\ pc[t] = "sa_call"
    /\ ProcessAlive
    /\ IF active_key = None
       THEN /\ IF t = "rpc" /\ ctx[t] = "exit"
               THEN /\ pc' = [pc EXCEPT ![t] = "raised"]
                    /\ ctx' = [ctx EXCEPT ![t] = None]
                    /\ UNCHANGED <<sap_key, sap_prev, mode_result>>
               ELSE EndCall(t, "KeyError")
            /\ lock' = Release(t)
            /\ UNCHANGED <<pstate, paired>>
       ELSE /\ pc' = [pc EXCEPT ![t] = "sa_discard"]
            /\ pstate' = [pstate EXCEPT ![active_key] = "Unprepared"]
            /\ paired' = (paired /\ pstate[active_key] = "Prepared")
            /\ UNCHANGED <<ctx, sap_key, sap_prev, mode_result, lock>>
    /\ UNCHANGED <<active_key, prepared, current_mode, hint, shutdown_requested,
                   shutdown_notified, running, rpc_req, rpc_provider, rpc_result,
                   rpc_after_shutdown, computed, status_delivered, ai_instruction,
                   mode_shutting_down, ack, api_token, rpc_unanswered, edge_vars,
                   prov_vars, md_vars, ctl_vars>>

\* service.py:128: self._prepared.discard(self._active_key).
ShutdownActiveDiscard(t) ==
    /\ pc[t] = "sa_discard"
    /\ ProcessAlive
    /\ prepared' = prepared \ {active_key}
    /\ pc' = [pc EXCEPT ![t] = "sa_clear"]
    /\ UNCHANGED <<active_key, lock, current_mode, hint, shutdown_requested,
                   shutdown_notified, running, pstate, paired, ctx, sap_key, sap_prev,
                   rpc_req, rpc_provider, rpc_result, rpc_after_shutdown, computed,
                   status_delivered, ai_instruction, mode_shutting_down, mode_result,
                   ack, api_token, rpc_unanswered, edge_vars, prov_vars, md_vars,
                   ctl_vars>>

\* service.py:129-130: forget the active key and fall back to the numeric hint.
ShutdownActiveClear(t) ==
    /\ pc[t] = "sa_clear"
    /\ ProcessAlive
    /\ active_key' = None
    /\ hint' = "numeric"
    /\ ReturnFromShutdownActive(t)
    /\ UNCHANGED <<prepared, lock, current_mode, shutdown_requested, shutdown_notified,
                   running, pstate, paired, rpc_req, rpc_provider, rpc_result,
                   rpc_after_shutdown, computed, status_delivered, ai_instruction,
                   mode_shutting_down, ack, api_token, rpc_unanswered, edge_vars,
                   prov_vars, md_vars, ctl_vars>>

\* service.py:99-100: provider.prepare().  It completes, or raises (the
\* exception leaves the `with` block, which releases the lock).
Prepare(t) ==
    /\ pc[t] = "prepare"
    /\ ProcessAlive
    /\ LET key == sap_key[t] IN
         IF key \notin Providers          \* line 99: self._providers[key]
         THEN /\ EndCall(t, "KeyError")
              /\ lock' = Release(t)
              /\ UNCHANGED <<pstate, paired>>
         ELSE \/ /\ pstate' = [pstate EXCEPT ![key] = "Prepared"]
                 /\ paired' = (paired /\ pstate[key] = "Unprepared")
                 /\ pc' = [pc EXCEPT ![t] = "commit_key"]
                 /\ UNCHANGED <<ctx, sap_key, sap_prev, mode_result, lock>>
              \/ /\ PrepareMayRaise(key)
                 /\ EndCall(t, "ConnectionError")
                 /\ lock' = Release(t)
                 /\ UNCHANGED <<pstate, paired>>
    /\ UNCHANGED <<active_key, prepared, current_mode, hint, shutdown_requested,
                   shutdown_notified, running, rpc_req, rpc_provider, rpc_result,
                   rpc_after_shutdown, computed, status_delivered, ai_instruction,
                   mode_shutting_down, ack, api_token, rpc_unanswered, edge_vars,
                   prov_vars, md_vars, ctl_vars>>

\* service.py:101: self._active_key = key.
CommitKey(t) ==
    /\ pc[t] = "commit_key"
    /\ ProcessAlive
    /\ active_key' = sap_key[t]
    /\ pc' = [pc EXCEPT ![t] = "commit_prepared"]
    /\ UNCHANGED <<prepared, lock, current_mode, hint, shutdown_requested,
                   shutdown_notified, running, pstate, paired, ctx, sap_key, sap_prev,
                   rpc_req, rpc_provider, rpc_result, rpc_after_shutdown, computed,
                   status_delivered, ai_instruction, mode_shutting_down, mode_result,
                   ack, api_token, rpc_unanswered, edge_vars, prov_vars, md_vars,
                   ctl_vars>>

\* service.py:102: self._prepared.add(key).
CommitPrepared(t) ==
    /\ pc[t] = "commit_prepared"
    /\ ProcessAlive
    /\ prepared' = prepared \cup {sap_key[t]}
    /\ pc' = [pc EXCEPT ![t] = "commit_mode"]
    /\ UNCHANGED <<active_key, lock, current_mode, hint, shutdown_requested,
                   shutdown_notified, running, pstate, paired, ctx, sap_key, sap_prev,
                   rpc_req, rpc_provider, rpc_result, rpc_after_shutdown, computed,
                   status_delivered, ai_instruction, mode_shutting_down, mode_result,
                   ack, api_token, rpc_unanswered, edge_vars, prov_vars, md_vars,
                   ctl_vars>>

\* service.py:103-105: record the mode and the observation hint, leave the lock.
CommitMode(t) ==
    /\ pc[t] = "commit_mode"
    /\ ProcessAlive
    /\ current_mode' = sap_key[t]
    /\ hint' = IF WantsFull(sap_key[t]) THEN "full" ELSE "numeric"
    /\ lock' = Release(t)
    /\ EndCall(t, "ok")
    /\ UNCHANGED <<active_key, prepared, shutdown_requested, shutdown_notified,
                   running, pstate, paired, rpc_req, rpc_provider, rpc_result,
                   rpc_after_shutdown, computed, status_delivered, ai_instruction,
                   mode_shutting_down, ack, api_token, rpc_unanswered, edge_vars,
                   prov_vars, md_vars, ctl_vars>>

SetActiveProvider(t) ==
    \/ SetActiveEnter(t)
    \/ ShutdownActiveCheck(t)
    \/ ShutdownActiveCall(t)
    \/ ShutdownActiveDiscard(t)
    \/ ShutdownActiveClear(t)
    \/ Prepare(t)
    \/ CommitKey(t)
    \/ CommitPrepared(t)
    \/ CommitMode(t)

\* ------------------------------------------------- clients of the REP socket
\* command_client.py:31-35 builds get_action around an observation;
\* transport.py:195-196 is the kill request.
GetAction(obs) == [endpoint |-> "get_action", obs |-> obs, api_token |-> None]

Kill == [endpoint |-> "kill", obs |-> {}, api_token |-> None]

\* transport.py:187: the ping request.
Ping == [endpoint |-> "ping", obs |-> {}, api_token |-> None]

\* A request for an endpoint nobody registered (transport.py:125).
UnknownEndpoint == [endpoint |-> "nope", obs |-> {}, api_token |-> None]

\* The token the deployment is configured with.
ApiToken == "secret"

\* Tokens a client may send (None: the request has no api_token).
Tokens == {None, ApiToken, "wrong"}

\* transport.py:204-205: the client adds its token to the request.
WithToken(request, token) == [request EXCEPT !.api_token = token]

Requests ==
    {WithToken(r, t) : r \in {GetAction(o) : o \in Observations}
                              \cup {Kill, Ping, UnknownEndpoint},
                       t \in Tokens}

\* A token check that lets every request through.
ValidateTokenAcceptsAll(server_token, request) == TRUE

\* transport.py:104-107: BaseZMQServer._validate_token.
ValidateToken(server_token, request) ==
    IF server_token = None THEN TRUE ELSE request.api_token = server_token

\* transport.py:92-93 and service.py:38-39 register these (sync_config, which
\* only stores its argument, is left out).
Endpoints == {"get_action", "kill", "ping"}

\* transport.py:117-133: where run goes with a request it received.
Dispatch(server_token, request) ==
    IF ~ValidateToken(server_token, request) THEN "unauthorized"
    ELSE IF request.endpoint \notin Endpoints THEN "error"
    ELSE IF request.endpoint = "kill" THEN "kill"
    ELSE IF request.endpoint = "ping" THEN "ping"
    ELSE "ga_locked"

\* ------------------------------------------------------ CommandService.run
\* service.py:42: run() first activates the default provider.
RunStart ==
    /\ pc["rpc"] = "run_start"
    /\ sap_key' = [sap_key EXCEPT !["rpc"] = DefaultKey]
    /\ ctx' = [ctx EXCEPT !["rpc"] = "start"]
    /\ pc' = [pc EXCEPT !["rpc"] = "sap_enter"]
    /\ UNCHANGED <<active_key, prepared, lock, current_mode, hint, shutdown_requested,
                   shutdown_notified, running, pstate, paired, sap_prev, rpc_req,
                   rpc_provider, rpc_result, rpc_after_shutdown, computed,
                   status_delivered, ai_instruction, mode_shutting_down, mode_result,
                   ack, api_token, rpc_unanswered, edge_vars, prov_vars, md_vars,
                   ctl_vars>>

\* transport.py:112 `while self.running`; leaving the loop enters run's
\* finally (service.py:45-46), which calls _shutdown_active without the lock.
RpcLoop ==
    /\ pc["rpc"] = "loop"
    /\ IF running
       THEN /\ pc' = [pc EXCEPT !["rpc"] = "recv"]
            /\ ctx' = ctx
       ELSE /\ pc' = [pc EXCEPT !["rpc"] = "sa_check"]
            /\ ctx' = [ctx EXCEPT !["rpc"] = "exit"]
    /\ UNCHANGED <<active_key, prepared, lock, current_mode, hint, shutdown_requested,
                   shutdown_notified, running, pstate, paired, sap_key, sap_prev,
                   rpc_req, rpc_provider, rpc_result, rpc_after_shutdown, computed,
                   status_delivered, ai_instruction, mode_shutting_down, mode_result,
                   ack, api_token, rpc_unanswered, edge_vars, prov_vars, md_vars,
                   ctl_vars>>

\* run_command_service.py:428-429: KeyboardInterrupt reaches the thread blocked
\* in socket.recv(); it is no Exception, so it leaves run through the finally.
RpcInterrupt ==
    /\ pc["rpc"] = "recv"
    /\ pc' = [pc EXCEPT !["rpc"] = "sa_check"]
    /\ ctx' = [ctx EXCEPT !["rpc"] = "exit"]
    /\ UNCHANGED <<active_key, prepared, lock, current_mode, hint, shutdown_requested,
                   shutdown_notified, running, pstate, paired, sap_key, sap_prev,
                   rpc_req, rpc_provider, rpc_result, rpc_after_shutdown, computed,
                   status_delivered, ai_instruction, mode_shutting_down, mode_result,
                   ack, api_token, rpc_unanswered, edge_vars, prov_vars, md_vars,
                   ctl_vars>>

\* transport.py:114-133: receive request r and pick its handler.
RpcRecvOf(r) ==
    /\ pc["rpc"] = "recv"
    /\ rpc_req' = r
    /\ rpc_unanswered' = rpc_unanswered + 1
    /\ pc' = [pc EXCEPT !["rpc"] = Dispatch(api_token, r)]
    /\ rpc_result' = IF Dispatch(api_token, r) \in {"error", "unauthorized"}
                      THEN [kind |-> Dispatch(api_token, r), empty |-> FALSE, hint |-> None]
                      ELSE rpc_result
    /\ rpc_after_shutdown' = shutdown_requested
    /\ UNCHANGED <<active_key, prepared, lock, current_mode, hint, shutdown_requested,
                   shutdown_notified, running, pstate, paired, ctx, sap_key, sap_prev,
                   rpc_provider, computed, status_delivered, ai_instruction,
                   mode_shutting_down, mode_result, ack, api_token>>

\* The server receives the next request some client sent.
RpcRecv ==
    /\ \E r \in Requests : RpcRecvOf(r)
    /\ UNCHANGED <<edge_vars, prov_vars, md_vars, ctl_vars>>

\* transport.py:98-99: the ping endpoint.
HandlePing ==
    /\ pc["rpc"] = "ping"
    /\ rpc_result' = [kind |-> "pong", empty |-> FALSE, hint |-> None]
    /\ pc' = [pc EXCEPT !["rpc"] = "send"]
    /\ UNCHANGED <<active_key, prepared, lock, current_mode, hint, shutdown_requested,
                   shutdown_notified, running, pstate, paired, ctx, sap_key, sap_prev,
                   rpc_req, rpc_provider, rpc_after_shutdown, computed,
                   status_delivered, ai_instruction, mode_shutting_down, mode_result,
                   ack, api_token, rpc_unanswered, edge_vars, prov_vars, md_vars,
                   ctl_vars>>

\* transport.py:95-96: the kill endpoint.
KillServer ==
    /\ pc["rpc"] = "kill"
    /\ running' = FALSE
    /\ rpc_result' = [kind |-> "nil", empty |-> FALSE, hint |-> None]
    /\ pc' = [pc EXCEPT !["rpc"] = "send"]
    /\ UNCHANGED <<active_key, prepared, lock, current_mode, hint, shutdown_requested,
                   shutdown_notified, pstate, paired, ctx, sap_key, sap_prev, rpc_req,
                   rpc_provider, rpc_after_shutdown, computed, status_delivered,
                   ai_instruction, mode_shutting_down, mode_result, ack, api_token,
                   rpc_unanswered, edge_vars, prov_vars, md_vars, ctl_vars>>

\* A get_action handler that never looks at the shutdown flag.
HandlerIgnoresShutdown(requested) == FALSE

\* service.py:52: whether the handler answers with the shutdown status.
HandlerSeesShutdown(requested) == requested

\* service.py:56: key = self._active_key or self._default_key.
ResolveKey(active, default) == IF active # None THEN active ELSE default

\* service.py:51-57: the locked part of _handle_get_action.
GetActionLocked ==
    /\ pc["rpc"] = "ga_locked"
    /\ lock = None
    /\ IF HandlerSeesShutdown(shutdown_requested)
       THEN /\ shutdown_notified' = TRUE
            /\ rpc_result' = [kind |-> "status", empty |-> FALSE, hint |-> None]
            /\ pc' = [pc EXCEPT !["rpc"] = "send"]
            /\ rpc_provider' = rpc_provider
       ELSE /\ rpc_provider' = ResolveKey(active_key, DefaultKey)
            /\ pc' = [pc EXCEPT !["rpc"] = "ga_compute"]
            /\ UNCHANGED <<shutdown_notified, rpc_result>>
    /\ UNCHANGED <<active_key, prepared, lock, current_mode, hint, shutdown_requested,
                   running, pstate, paired, ctx, sap_key, sap_prev, rpc_req,
                   rpc_after_shutdown, computed, status_delivered, ai_instruction,
                   mode_shutting_down, mode_result, ack, api_token, rpc_unanswered,
                   edge_vars, prov_vars, md_vars, ctl_vars>>

\* An image test that accepts any array, whatever its rank.
ObservationContainsAnyArray(obs) == \E v \in obs : IsArray(v)

\* service.py:117-122: some value of the robot mapping is an array of rank >= 2.
ObservationContainsImages(obs) == \E v \in obs : IsArray(v) /\ Rank(v) >= 2

\* service.py:58-59: the request is answered without the provider.
SkipsProvider(provider, obs) == WantsFull(provider) /\ ~ObservationContainsImages(obs)

\* service.py:58-63, outside the lock: build the empty action, or call
\* provider.compute_command, which returns an action or raises (a provider
\* that is not prepared may fail as well: data.py:205-206, teleop.py:94-95).
GetActionCompute ==
    /\ pc["rpc"] = "ga_compute"
    /\ IF SkipsProvider(rpc_provider, rpc_req.obs)
       THEN /\ rpc_result' = [kind |-> "action", empty |-> TRUE, hint |-> None]
            /\ pc' = [pc EXCEPT !["rpc"] = "ga_reply"]
            /\ computed' = computed
       ELSE /\ computed' = [key |-> rpc_provider,
                            prepared |-> pstate[rpc_provider] = "Prepared"]
            /\ \/ /\ rpc_result' = [kind |-> "action", empty |-> FALSE, hint |-> None]
                  /\ pc' = [pc EXCEPT !["rpc"] = "ga_reply"]
               \/ /\ ComputeMayRaise(rpc_provider)
                  /\ rpc_result' = [kind |-> "error", empty |-> FALSE, hint |-> None]
                  /\ pc' = [pc EXCEPT !["rpc"] = "error"]
    /\ UNCHANGED <<active_key, prepared, lock, current_mode, hint, shutdown_requested,
                   shutdown_notified, running, pstate, paired, ctx, sap_key, sap_prev,
                   rpc_req, rpc_provider, rpc_after_shutdown, status_delivered,
                   ai_instruction, mode_shutting_down, mode_result, ack, api_token,
                   rpc_unanswered, edge_vars, prov_vars, md_vars, ctl_vars>>

\* service.py:64-71: the reply carries the hint as it is when the handler returns.
GetActionReply ==
    /\ pc["rpc"] = "ga_reply"
    /\ rpc_result' = [rpc_result EXCEPT !.hint = hint]
    /\ pc' = [pc EXCEPT !["rpc"] = "send"]
    /\ UNCHANGED <<active_key, prepared, lock, current_mode, hint, shutdown_requested,
                   shutdown_notified, running, pstate, paired, ctx, sap_key, sap_prev,
                   rpc_req, rpc_provider, rpc_after_shutdown, computed,
                   status_delivered, ai_instruction, mode_shutting_down, mode_result,
                   ack, api_token, rpc_unanswered, edge_vars, prov_vars, md_vars,
                   ctl_vars>>

\* transport.py:134 then back to line 112: `running` after a reply was sent.
\* BaseZMQServer.run calls no hook here; CommandService._post_send
\* (service.py:82-84) has no caller.
RunningAfterSend(run, requested, notified) == run

\* The request is answered: the handler's frame is gone.
EndRequest ==
    /\ rpc_req' = NoRequest
    /\ rpc_provider' = None
    /\ rpc_result' = NoReply
    /\ rpc_after_shutdown' = FALSE
    /\ computed' = NoCompute

\* transport.py:134: self.socket.send(result), on the server's side.
RpcSendReply ==
    /\ pc["rpc"] = "send"
    /\ status_delivered' = (status_delivered \/ rpc_result.kind = "status")
    /\ running' = RunningAfterSend(running, shutdown_requested, shutdown_notified)
    /\ rpc_unanswered' = rpc_unanswered - 1
    /\ EndRequest
    /\ pc' = [pc EXCEPT !["rpc"] = "loop"]
    /\ UNCHANGED <<active_key, prepared, lock, current_mode, hint, shutdown_requested,
                   shutdown_notified, pstate, paired, ctx, sap_key, sap_prev,
                   ai_instruction, mode_shutting_down, mode_result, ack, api_token>>

\* The reply goes to some client.
RpcSend ==
    /\ RpcSendReply
    /\ UNCHANGED <<edge_vars, prov_vars, md_vars, ctl_vars>>

\* transport.py:117-121: an unauthorized request is answered with {error} and
\* the loop continues.
RpcUnauthorized ==
    /\ pc["rpc"] = "unauthorized"
    /\ rpc_unanswered' = rpc_unanswered - 1
    /\ EndRequest
    /\ pc' = [pc EXCEPT !["rpc"] = "loop"]
    /\ UNCHANGED <<active_key, prepared, lock, current_mode, hint, shutdown_requested,
                   shutdown_notified, running, pstate, paired, ctx, sap_key, sap_prev,
                   status_delivered, ai_instruction, mode_shutting_down, mode_result,
                   ack, api_token, edge_vars, prov_vars, md_vars, ctl_vars>>

\* An except branch that leaves the loop whatever `running` is.
ErrorNeverAnswered(run) == FALSE

\* transport.py:138-145: the except branch answers unless the server was told
\* to stop.
ErrorAnswered(run) == run

\* transport.py:137-147: an exception raised while serving the request is
\* answered with {error}, or ends the loop without a reply.
RpcErrorReply ==
    /\ pc["rpc"] = "error"
    /\ EndRequest
    /\ IF ErrorAnswered(running)
       THEN /\ rpc_unanswered' = rpc_unanswered - 1
            /\ pc' = [pc EXCEPT !["rpc"] = "loop"]
            /\ ctx' = ctx
       ELSE /\ rpc_unanswered' = rpc_unanswered
            /\ pc' = [pc EXCEPT !["rpc"] = "sa_check"]
            /\ ctx' = [ctx EXCEPT !["rpc"] = "exit"]
    /\ UNCHANGED <<active_key, prepared, lock, current_mode, hint, shutdown_requested,
                   shutdown_notified, running, pstate, paired, sap_key, sap_prev,
                   status_delivered, ai_instruction, mode_shutting_down, mode_result,
                   ack, api_token>>

\* The {error} reply goes to some client.
RpcError ==
    /\ RpcErrorReply
    /\ UNCHANGED <<edge_vars, prov_vars, md_vars, ctl_vars>>

\* service.py:47 / transport.py:149-155: close() ends run.
RpcClose ==
    /\ pc["rpc"] = "close"
    /\ running' = FALSE
    /\ ctx' = [ctx EXCEPT !["rpc"] = None]
    /\ pc' = [pc EXCEPT !["rpc"] = "returned"]
    /\ UNCHANGED <<active_key, prepared, lock, current_mode, hint, shutdown_requested,
                   shutdown_notified, pstate, paired, sap_key, sap_prev, rpc_req,
                   rpc_provider, rpc_result, rpc_after_shutdown, computed,
                   status_delivered, ai_instruction, mode_shutting_down, mode_result,
                   ack, api_token, rpc_unanswered, edge_vars, prov_vars, md_vars,
                   ctl_vars>>

\* run_command_service.py:426-432: once run has returned or raised, main stops
\* the mode manager and the process ends (the dispatcher threads are daemons).
MainStop ==
    /\ pc["rpc"] \in {"returned", "raised"}
    /\ pc' = [pc EXCEPT !["rpc"] = "exited"]
    /\ UNCHANGED <<active_key, prepared, lock, current_mode, hint, shutdown_requested,
                   shutdown_notified, running, pstate, paired, ctx, sap_key, sap_prev,
                   rpc_req, rpc_provider, rpc_result, rpc_after_shutdown, computed,
                   status_delivered, ai_instruction, mode_shutting_down, mode_result,
                   ack, api_token, rpc_unanswered, edge_vars, prov_vars, md_vars,
                   ctl_vars>>

\* ------------------------------------------------ ModeManager._handle_event
Events == [type : {"teleop"}, alias : Keys]
              \cup {[type |-> "infer", alias |-> None],
                    [type |-> "idle", alias |-> None],
                    [type |-> "shutdown", alias |-> None]}

\* mode_manager.py:46 / 61 / 66 / 80: the key the event switches to
\* (ai_key = "infer", idle_key = "idle"; an alias falls back to itself).
EventKey(ev) ==
    IF ev.type = "teleop" THEN ev.alias
    ELSE IF ev.type = "infer" THEN "infer"
    ELSE "idle"

\* mode_manager.py:48-51 / 58-60: what the event does to the AI provider's
\* instruction before set_mode is called.
InstructionOnEvent(ev, cur) ==
    IF ev.type = "teleop" THEN None
    ELSE IF ev.type = "infer" THEN "instruction"
    ELSE cur

\* mode_manager.py:42-83 up to the set_mode call: the dispatcher thread hands
\* the next event to the listener, which drops it once shutting down.
ModeEvent ==
    /\ pc["mode"] = "idle"
    /\ ProcessAlive
    /\ \E ev \in Events :
         IF mode_shutting_down
         THEN UNCHANGED <<ai_instruction, mode_shutting_down, ctx, sap_key, pc, mode_result>>
         ELSE /\ ai_instruction' = InstructionOnEvent(ev, ai_instruction)
              /\ mode_shutting_down' = (ev.type = "shutdown")
              /\ ctx' = [ctx EXCEPT !["mode"] = ev.type]
              /\ sap_key' = [sap_key EXCEPT !["mode"] = EventKey(ev)]
              /\ pc' = [pc EXCEPT !["mode"] = "sap_enter"]
              /\ mode_result' = None
    /\ UNCHANGED <<active_key, prepared, lock, current_mode, hint, shutdown_requested,
                   shutdown_notified, running, pstate, paired, sap_prev, rpc_req,
                   rpc_provider, rpc_result, rpc_after_shutdown, computed,
                   status_delivered, ack, api_token, rpc_unanswered, edge_vars,
                   prov_vars, md_vars, ctl_vars>>

\* mode_manager.py:67-70: the Idle branch clears the instruction after set_mode.
ModeIdleClear ==
    /\ pc["mode"] = "idle_clear"
    /\ ProcessAlive
    /\ ai_instruction' = None
    /\ pc' = [pc EXCEPT !["mode"] = "idle"]
    /\ UNCHANGED <<active_key, prepared, lock, current_mode, hint, shutdown_requested,
                   shutdown_notified, running, pstate, paired, ctx, sap_key, sap_prev,
                   rpc_req, rpc_provider, rpc_result, rpc_after_shutdown, computed,
                   status_delivered, mode_shutting_down, mode_result, ack, api_token,
                   rpc_unanswered, edge_vars, prov_vars, md_vars, ctl_vars>>

\* service.py:77-80, called at mode_manager.py:83.
InitiateShutdown ==
    /\ pc["mode"] = "init_shutdown"
    /\ ProcessAlive
    /\ lock = None
    /\ shutdown_requested' = TRUE
    /\ pc' = [pc EXCEPT !["mode"] = "wait"]
    /\ UNCHANGED <<active_key, prepared, lock, current_mode, hint, shutdown_notified,
                   running, pstate, paired, ctx, sap_key, sap_prev, rpc_req,
                   rpc_provider, rpc_result, rpc_after_shutdown, computed,
                   status_delivered, ai_instruction, mode_shutting_down, mode_result,
                   ack, api_token, rpc_unanswered, edge_vars, prov_vars, md_vars,
                   ctl_vars>>

\* mode_manager.py:84-85: wait(timeout=2.0) returns True: the event is set.
WaitAcknowledged ==
    /\ pc["mode"] = "wait"
    /\ ProcessAlive
    /\ shutdown_notified
    /\ ack' = "ack"
    /\ pc' = [pc EXCEPT !["mode"] = "idle"]
    /\ UNCHANGED <<active_key, prepared, lock, current_mode, hint, shutdown_requested,
                   shutdown_notified, running, pstate, paired, ctx, sap_key, sap_prev,
                   rpc_req, rpc_provider, rpc_result, rpc_after_shutdown, computed,
                   status_delivered, ai_instruction, mode_shutting_down, mode_result,
                   api_token, rpc_unanswered, edge_vars, prov_vars, md_vars, ctl_vars>>

\* mode_manager.py:86-87: the two seconds pass without the event.
WaitTimedOut ==
    /\ pc["mode"] = "wait"
    /\ ProcessAlive
    /\ ~shutdown_notified
    /\ ack' = "timeout"
    /\ pc' = [pc EXCEPT !["mode"] = "idle"]
    /\ UNCHANGED <<active_key, prepared, lock, current_mode, hint, shutdown_requested,
                   shutdown_notified, running, pstate, paired, ctx, sap_key, sap_prev,
                   rpc_req, rpc_provider, rpc_result, rpc_after_shutdown, computed,
                   status_delivered, ai_instruction, mode_shutting_down, mode_result,
                   api_token, rpc_unanswered, edge_vars, prov_vars, md_vars, ctl_vars>>

\* ------------------------------------------------- edge: CommandChannelClient
\* What one attempt of call_endpoint("get_action") can end with: a reply with
\* an action, the shutdown status envelope, an error envelope, a receive
\* timeout (zmq Again), a ZMQError of the transport, or the ZMQError that
\* socket.send raises on a REQ socket still awaiting a reply ("efsm").
ReplyKinds == {"action", "status", "error", "timeout", "zmqerror", "efsm"}

Replies ==
    [kind : {"action"}, action : ReplyActions, hint : Hints]
        \cup [kind : ReplyKinds \ {"action"}, action : {None}, hint : {None}]

\* transport.py:209-210: send is refused on a REQ socket whose previous
\* request is still open; on a fresh socket the request goes out and the
\* attempt ends with a reply, a timeout or a transport error.
RepliesOn(sock) ==
    IF sock = "awaiting" THEN {r \in Replies : r.kind = "efsm"}
    ELSE {r \in Replies : r.kind # "efsm"}

\* transport.py:209-210: the REQ socket after an attempt: a receive timeout
\* leaves the request open, a reply closes it, a failed send changes nothing.
SocketAfter(kind, sock) ==
    IF kind = "timeout" THEN "awaiting"
    ELSE IF kind \in {"zmqerror", "efsm"} THEN sock
    ELSE "ready"

\* A compute_action that allows one attempt more than max_retries + 1.
ComputeActionOutcomeExtraRetry(kind, attempt, max_retries) ==
    IF kind = "timeout"
    THEN (IF attempt + 1 > max_retries + 1 THEN "TimeoutError" ELSE "retry")
    ELSE IF kind \in {"zmqerror", "efsm"}
    THEN (IF attempt + 1 > max_retries + 1 THEN "RuntimeError" ELSE "retry")
    ELSE IF kind \in {"error", "status"} THEN "RuntimeError"
    ELSE "return"

\* command_client.py:33-54 with transport.py:198-214: one pass through the body
\* of compute_action's `while True`, given how the attempt ended and the
\* failures counted so far.
ComputeActionOutcome(kind, attempt, max_retries) ==
    IF kind = "timeout"
    THEN (IF attempt + 1 > max_retries THEN "TimeoutError" ELSE "retry")
    ELSE IF kind \in {"zmqerror", "efsm"}
    THEN (IF attempt + 1 > max_retries THEN "RuntimeError" ELSE "retry")
    ELSE IF kind = "error" THEN "RuntimeError"
    ELSE IF kind = "status" THEN "RuntimeError"
    ELSE "return"

\* The hint the client hands to the loop after a reply.  command_loop.py:66
\* calls client.last_observation_hint(), which command_client.py does not
\* define; taken from the specification: the "observation_hint" of the reply.
LastObservationHint(reply) == reply.hint

\* ------------------------------------------------ edge: RobotControlService
\* A set_observation_mode that never changes the mode.
SetObservationModeKeepsCurrent(mode, current) == current

\* service.py:104-107 (edge): set_observation_mode ignores an unknown mode.
SetObservationMode(mode, current) ==
    IF mode \in ObservationModes THEN mode ELSE current

\* What robot.get_observation() can return: joint numbers, with or without
\* arrays (camera frames have rank 3).
RobotObservations == {o \in Observations : "scalar" \in o}

\* service.py:25-30 (edge): _numeric_only keeps the int and float values.
NumericOnly(values) == {v \in values : ~IsArray(v)}

\* service.py:164-175 (edge): _select_observation_adapter, with the default
\* adapters; resizing the frames (full_preprocessed) keeps their rank.
ShapeObservation(mode, robot_obs) ==
    IF mode \in {"full", "full_preprocessed"} THEN robot_obs
    ELSE NumericOnly(robot_obs)

\* service.py:121-128 (edge): _last_action after apply_action(action), with the
\* default action adapter (service.py:91) and no action filter (148-152).
LastAfterApply(action) == action

\* --------------------------------------------------------- edge: CommandLoop
\* command_loop.py:47-68: which branch of the try statement an outcome of
\* compute_action takes.
LoopReaction(outcome) ==
    IF outcome = "ShutdownRequested" THEN "break"
    ELSE IF outcome = "TimeoutError" THEN "fallback"
    ELSE IF outcome = "return" THEN "apply"
    ELSE "propagate"

\* A fallback ladder that zeroes the command one timeout early.
FallbackChoiceOneEarly(missed, max_missed, fallback, last) ==
    IF missed + 1 >= max_missed THEN [action |-> "zero", missed |-> 0]
    ELSE IF fallback # None THEN [action |-> fallback, missed |-> missed + 1]
    ELSE [action |-> last, missed |-> missed + 1]

\* command_loop.py:54-64: the action chosen after a timeout, with the new
\* missed-action count.
FallbackChoice(missed, max_missed, fallback, last) ==
    IF missed + 1 > max_missed THEN [action |-> "zero", missed |-> 0]
    ELSE IF fallback # None THEN [action |-> fallback, missed |-> missed + 1]
    ELSE [action |-> last, missed |-> missed + 1]

\* command_loop.py:37-46: the loop condition and the observation of one tick.
EdgeObserve ==
    /\ e_pc = "tick"
    /\ IF e_running
       THEN /\ e_pc' = "call"
            /\ e_exit' = e_exit
            /\ \E raw \in RobotObservations :
                 /\ e_raw' = raw
                 /\ e_obs' = ShapeObservation(e_mode, raw)
       ELSE /\ e_pc' = "done"
            /\ e_exit' = "stopped"
            /\ UNCHANGED <<e_raw, e_obs>>
    /\ e_attempt' = 0
    /\ e_reply' = None
    /\ e_applied' = None
    /\ UNCHANGED <<e_running, e_fallback, e_max_missed, e_max_retries, e_sock,
                   e_missed, e_mode, e_last, e_trail, orch_vars, prov_vars, md_vars,
                   ctl_vars>>

\* command_loop.py:47-69: one attempt of compute_action that ends as `r` and,
\* when compute_action settles, the rest of the tick.
EdgeAttemptOf(r) ==
    LET outcome == ComputeActionOutcome(r.kind, e_attempt, e_max_retries)
        reaction == LoopReaction(outcome)
        choice == FallbackChoice(e_missed, e_max_missed, e_fallback, e_last)
    IN  /\ e_pc = "call"
        /\ e_reply' = r.kind
        /\ UNCHANGED <<e_fallback, e_max_missed, e_max_retries, e_raw, e_obs>>
        /\ IF outcome = "retry"
           THEN /\ e_attempt' = e_attempt + 1
                /\ e_sock' = "ready"
                /\ UNCHANGED <<e_pc, e_running, e_missed, e_mode, e_last,
                               e_applied, e_exit, e_trail>>
           ELSE /\ e_sock' = SocketAfter(r.kind, e_sock)
                /\ IF reaction = "break"
                   THEN /\ e_pc' = "done"
                        /\ e_running' = FALSE
                        /\ e_exit' = "break"
                        /\ UNCHANGED <<e_missed, e_mode, e_last, e_applied, e_attempt,
                                       e_trail>>
                   ELSE IF reaction = "propagate"
                   THEN /\ e_pc' = "done"
                        /\ e_running' = FALSE
                        /\ e_exit' = outcome
                        /\ UNCHANGED <<e_missed, e_mode, e_last, e_applied, e_attempt,
                                       e_trail>>
                   ELSE IF reaction = "fallback"
                   THEN /\ e_missed' = choice.missed
                        /\ e_applied' = choice.action
                        /\ e_last' = LastAfterApply(choice.action)
                        /\ e_pc' = "tick"
                        /\ e_trail' = IF Len(e_trail) < MaxTrail
                                      THEN Append(e_trail, choice.action)
                                      ELSE e_trail
                        /\ UNCHANGED <<e_running, e_mode, e_exit, e_attempt>>
                   ELSE /\ e_mode' = SetObservationMode(LastObservationHint(r), e_mode)
                        /\ e_missed' = 0
                        /\ e_applied' = r.action
                        /\ e_last' = LastAfterApply(r.action)
                        /\ e_pc' = "tick"
                        /\ e_trail' = <<>>
                        /\ UNCHANGED <<e_running, e_exit, e_attempt>>

\* The edge loop against an orchestrator that may answer anything or nothing.
EdgeAttempt ==
    /\ \E r \in RepliesOn(e_sock) : EdgeAttemptOf(r)
    /\ UNCHANGED <<orch_vars, prov_vars, md_vars, ctl_vars>>

\* run_robot_service.py:48-52: SIGINT or SIGTERM calls loop.stop().
EdgeSignal ==
    /\ e_pc # "done"
    /\ e_running
    /\ e_running' = FALSE
    /\ UNCHANGED <<e_pc, e_fallback, e_max_missed, e_max_retries, e_sock, e_missed,
                   e_raw, e_obs, e_mode, e_last, e_attempt, e_reply, e_applied, e_exit,
                   e_trail, orch_vars, prov_vars, md_vars, ctl_vars>>

EdgeNext ==
    \/ EdgeObserve
    \/ EdgeAttempt
    \/ EdgeSignal

\* -------------------------------------------- the edge loop and the orchestrator
\* transport.py:134 and 210-214: what the client receives for the server's
\* result.
ReplyOf(res) ==
    IF res.kind = "action"
    THEN [kind |-> "action",
          action |-> IF res.empty THEN "empty" ELSE "a1",
          hint |-> res.hint]
    ELSE [kind |-> res.kind, action |-> None, hint |-> None]

\* command_client.py:31-35 and transport.py:209 / 114: the edge's get_action,
\* built around this tick's observation, reaches the server.
ExchangeRequest ==
    /\ e_pc = "call"
    /\ e_sock = "ready"
    /\ RpcRecvOf(WithToken(GetAction(e_obs), api_token))
    /\ e_sock' = "awaiting"
    /\ UNCHANGED <<prov_vars, md_vars, ctl_vars>>
    /\ UNCHANGED <<e_pc, e_running, e_fallback, e_max_missed, e_max_retries, e_missed,
                   e_raw, e_obs, e_mode, e_last, e_attempt, e_reply, e_applied, e_exit,
                   e_trail>>

\* transport.py:134 and 210: the server's reply reaches the edge, which ends
\* its tick with it (command_loop.py:47-69).
ExchangeReply ==
    /\ e_sock = "awaiting"
    /\ RpcSendReply
    /\ EdgeAttemptOf(ReplyOf(rpc_result))
    /\ UNCHANGED <<prov_vars, md_vars, ctl_vars>>

\* transport.py:145 and 210-213: the server's {error} reply reaches the edge.
ExchangeError ==
    /\ e_sock = "awaiting"
    /\ RpcErrorReply
    /\ EdgeAttemptOf([kind |-> "error", action |-> None, hint |-> None])
    /\ UNCHANGED <<prov_vars, md_vars, ctl_vars>>

\* The orchestrator serving one edge loop, while mode events arrive.
ExchangeNext ==
    \/ RunStart
    \/ RpcLoop
    \/ GetActionLocked
    \/ GetActionCompute
    \/ GetActionReply
    \/ ModeEvent
    \/ ModeIdleClear
    \/ InitiateShutdown
    \/ WaitAcknowledged
    \/ WaitTimedOut
    \/ \E t \in Threads : SetActiveProvider(t)
    \/ EdgeObserve
    \/ ExchangeRequest
    \/ ExchangeReply
    \/ ExchangeError

\* ------------------------------------------------------- AICommandProvider
\* Largest chunk the action adapter yields (ai.py:38: action_horizon).
MaxChunk == 3

\* Chunk numbers in use; the numbering wraps around.
ChunkIds == 2

\* What compute_command has returned: nothing yet, the empty action, an
\* exception, or element `index` of chunk `chunk`.
NothingReturned == [kind |-> "none", chunk |-> 0, index |-> 0]

EmptyAction == [kind |-> "empty", chunk |-> 0, index |-> 0]

Raised == [kind |-> "raised", chunk |-> 0, index |-> 0]

Element(c, i) == [kind |-> "element", chunk |-> c, index |-> i]

NextChunk(c) == (c % ChunkIds) + 1

\* ai.py:101-118: the chunk of k action maps the adapter made of the inference
\* reply; an adapter that returns nothing is replaced by one no-op map.
Batches(c, k) ==
    IF k = 0 THEN <<Element(c, 0)>> ELSE [i \in 1..k |-> Element(c, i - 1)]

\* The instructions an Infer event carries (mode_manager.py:60:
\* event.instruction).
Instructions == {"instruction", "other instruction"}

\* ai.py:33-39: the provider after construction.
AIInit ==
    /\ ai_pc = "idle"
    /\ ai_pending = <<>>
    /\ ai_batches = <<>>
    /\ ai_chunks = 0
    /\ ai_inferred = FALSE
    /\ ai_requested = None
    /\ ai_returned = NothingReturned

\* ai.py:41-44, called by the dispatcher thread (mode_manager.py:58-60).
AISetInstruction ==
    /\ \E s \in Instructions : ai_instruction' = s
    /\ ai_pending' = <<>>
    /\ UNCHANGED <<active_key, prepared, lock, current_mode, hint, shutdown_requested,
                   shutdown_notified, running, pstate, paired, pc, ctx, sap_key,
                   sap_prev, rpc_req, rpc_provider, rpc_result, rpc_after_shutdown,
                   computed, status_delivered, mode_shutting_down, mode_result, ack,
                   api_token, rpc_unanswered, ai_pc, ai_batches, ai_chunks,
                   ai_inferred, ai_requested, ai_returned, dc_state, dc_deadline,
                   dc_recording, dc_dataset, dc_events, dc_episodes, dc_target,
                   dc_episode_ticks, dc_reset_ticks, dc_left, dc_buffer, dc_sink,
                   dc_ctx, dc_ticks, dc_pc, edge_vars, md_vars, ctl_vars>>

\* ai.py:46-49, called by the dispatcher thread (mode_manager.py:48-51, 67-70).
AIClearInstruction ==
    /\ ai_instruction' = None
    /\ ai_pending' = <<>>
    /\ UNCHANGED <<active_key, prepared, lock, current_mode, hint, shutdown_requested,
                   shutdown_notified, running, pstate, paired, pc, ctx, sap_key,
                   sap_prev, rpc_req, rpc_provider, rpc_result, rpc_after_shutdown,
                   computed, status_delivered, mode_shutting_down, mode_result, ack,
                   api_token, rpc_unanswered, ai_pc, ai_batches, ai_chunks,
                   ai_inferred, ai_requested, ai_returned, dc_state, dc_deadline,
                   dc_recording, dc_dataset, dc_events, dc_episodes, dc_target,
                   dc_episode_ticks, dc_reset_ticks, dc_left, dc_buffer, dc_sink,
                   dc_ctx, dc_ticks, dc_pc, edge_vars, md_vars, ctl_vars>>

\* ai.py:54-55, called by set_active_provider on the dispatcher thread.
AIPrepare ==
    /\ ai_pending' = <<>>
    /\ UNCHANGED <<ai_pc, ai_batches, ai_chunks, ai_inferred, ai_requested,
                   ai_returned, dc_state, dc_deadline, dc_recording, dc_dataset,
                   dc_events, dc_episodes, dc_target, dc_episode_ticks, dc_reset_ticks,
                   dc_left, dc_buffer, dc_sink, dc_ctx, dc_ticks, dc_pc, orch_vars,
                   edge_vars, md_vars, ctl_vars>>

\* ai.py:57-58, called by _shutdown_active on the dispatcher thread.
AIShutdown ==
    /\ ai_pending # <<>>
    /\ ai_pending' = <<>>
    /\ UNCHANGED <<ai_pc, ai_batches, ai_chunks, ai_inferred, ai_requested,
                   ai_returned, dc_state, dc_deadline, dc_recording, dc_dataset,
                   dc_events, dc_episodes, dc_target, dc_episode_ticks, dc_reset_ticks,
                   dc_left, dc_buffer, dc_sink, dc_ctx, dc_ticks, dc_pc, orch_vars,
                   edge_vars, md_vars, ctl_vars>>

\* ai.py:60-63: compute_command starts; without an instruction it drains
\* pending and returns the empty action.
AIComputeEnter ==
    /\ ai_pc = "idle"
    /\ ai_inferred' = FALSE
    /\ IF ai_instruction = None
       THEN /\ ai_pending' = <<>>
            /\ ai_returned' = EmptyAction
            /\ ai_pc' = "idle"
       ELSE /\ ai_pc' = "check"
            /\ UNCHANGED <<ai_pending, ai_returned>>
    /\ UNCHANGED <<ai_batches, ai_chunks, ai_requested, dc_state, dc_deadline,
                   dc_recording, dc_dataset, dc_events, dc_episodes, dc_target,
                   dc_episode_ticks, dc_reset_ticks, dc_left, dc_buffer, dc_sink,
                   dc_ctx, dc_ticks, dc_pc, orch_vars, edge_vars, md_vars, ctl_vars>>

\* ai.py:65: `if not self._pending_actions`.
AICheck ==
    /\ ai_pc = "check"
    /\ ai_pc' = IF ai_pending = <<>> THEN "infer" ELSE "pop"
    /\ UNCHANGED <<ai_pending, ai_batches, ai_chunks, ai_inferred, ai_requested,
                   ai_returned, dc_state, dc_deadline, dc_recording, dc_dataset,
                   dc_events, dc_episodes, dc_target, dc_episode_ticks, dc_reset_ticks,
                   dc_left, dc_buffer, dc_sink, dc_ctx, dc_ticks, dc_pc, orch_vars,
                   edge_vars, md_vars, ctl_vars>>

\* ai.py:66-118: the inference call and the action adapter; either may raise.
\* The request carries the instruction as line 69 reads it.
AIInfer ==
    /\ ai_pc = "infer"
    /\ ai_requested' = ai_instruction
    /\ \/ /\ ai_returned' = Raised
          /\ ai_pc' = "idle"
          /\ UNCHANGED <<ai_chunks, ai_batches, ai_inferred>>
       \/ \E k \in 0..MaxChunk :
            /\ ai_chunks' = NextChunk(ai_chunks)
            /\ ai_batches' = Batches(NextChunk(ai_chunks), k)
            /\ ai_inferred' = TRUE
            /\ ai_pc' = "append"
            /\ ai_returned' = ai_returned
    /\ UNCHANGED <<ai_pending, dc_state, dc_deadline, dc_recording, dc_dataset,
                   dc_events, dc_episodes, dc_target, dc_episode_ticks, dc_reset_ticks,
                   dc_left, dc_buffer, dc_sink, dc_ctx, dc_ticks, dc_pc, orch_vars,
                   edge_vars, md_vars, ctl_vars>>

\* ai.py:119-120: one round of `for batch in batches: pending.append(...)`.
AIAppend ==
    /\ ai_pc = "append"
    /\ IF ai_batches = <<>>
       THEN /\ ai_pc' = "pop"
            /\ UNCHANGED <<ai_pending, ai_batches>>
       ELSE /\ ai_pending' = Append(ai_pending, Head(ai_batches))
            /\ ai_batches' = Tail(ai_batches)
            /\ ai_pc' = ai_pc
    /\ UNCHANGED <<ai_chunks, ai_inferred, ai_requested, ai_returned, dc_state,
                   dc_deadline, dc_recording, dc_dataset, dc_events, dc_episodes,
                   dc_target, dc_episode_ticks, dc_reset_ticks, dc_left, dc_buffer,
                   dc_sink, dc_ctx, dc_ticks, dc_pc, orch_vars, edge_vars, md_vars,
                   ctl_vars>>

\* ai.py:122-125: return the head of pending, or the empty action when pending
\* is empty.
AIPop ==
    /\ ai_pc = "pop"
    /\ IF ai_pending = <<>>
       THEN /\ ai_returned' = EmptyAction
            /\ ai_pending' = ai_pending
       ELSE /\ ai_returned' = Head(ai_pending)
            /\ ai_pending' = Tail(ai_pending)
    /\ ai_pc' = "idle"
    /\ UNCHANGED <<ai_batches, ai_chunks, ai_inferred, ai_requested, dc_state,
                   dc_deadline, dc_recording, dc_dataset, dc_events, dc_episodes,
                   dc_target, dc_episode_ticks, dc_reset_ticks, dc_left, dc_buffer,
                   dc_sink, dc_ctx, dc_ticks, dc_pc, orch_vars, edge_vars, md_vars,
                   ctl_vars>>

\* The RPC thread computing commands while the dispatcher thread sets and
\* clears the instruction and switches providers.
AINext ==
    \/ AISetInstruction
    \/ AIClearInstruction
    \/ AIPrepare
    \/ AIShutdown
    \/ AIComputeEnter
    \/ AICheck
    \/ AIInfer
    \/ AIAppend
    \/ AIPop

\* -------------------------------------------- DataCollectionCommandProvider
\* The thread serving get_action and the thread that switches providers and
\* hands over control commands.
DCThreads == {"rpc", "disp"}

\* data.py:61-67: the event flags.
EventNames == {"exit_early", "rerecord_episode", "stop_recording",
               "reset_requested", "continue_after_reset"}

\* data.py:73-104: the commands handle_control_command tells apart ("start"
\* stands for every command that sets no flag).
Commands == {"stop", "next", "rerecord", "reset", "resume", "start"}

\* Largest dataset.num_episodes a target is configured with.
TargetEpisodes == 1

\* Episodes a dataset holds at most.
MaxEpisodes == 2

\* Frames the episode buffer tells apart: none, one, more.
MaxFrames == 2

\* Length of an episode and of a reset phase, in ticks, wherever the timing
\* is left open.
ShortEpisode == 1
ShortReset == 1

\* The paced run: episode and reset time in ticks, episodes to record, and
\* the ticks it is followed for.
ScenarioEpisode == 10
ScenarioReset == 5
ScenarioEpisodes == 2
MaxTicks == 60

\* data.py:77-95: the flags a command raises.
EventsOfCommand(command) ==
    IF command = "stop" THEN {"stop_recording"}
    ELSE IF command = "next" THEN {"exit_early"}
    ELSE IF command = "rerecord" THEN {"rerecord_episode", "exit_early"}
    ELSE IF command = "reset" THEN {"reset_requested"}
    ELSE IF command = "resume" THEN {"continue_after_reset"}
    ELSE {}

\* data.py:76: force_process.
ForceOfCommand(command) == command = "stop"

\* A provider that never finds its target reached.
TargetIgnored(target, episodes) == FALSE

\* data.py:150 / 421 / 453 / 473: the target is set and reached.
TargetReached(target, episodes) == target # 0 /\ episodes >= target

\* data.py:404-467: the branch of _update_state that acts in `state` with the
\* flags `events`; `reached` is deadline_reached.
UpdateBranch(state, events, reached, force) ==
    LET stop == "stop_recording" \in events
        reset == "reset_requested" \in events
        cont == "continue_after_reset" \in events
        exit == "exit_early" \in events
    IN  IF stop /\ state # "complete" THEN "stop"
        ELSE IF reset /\ ~cont /\ state = "record" THEN "reset_record"
        ELSE IF reset /\ ~cont /\ state = "reset" THEN "reset_reset"
        ELSE IF cont /\ state = "reset" THEN "continue"
        ELSE IF state = "record" /\ (reached \/ exit \/ force) THEN "record"
        ELSE IF state = "reset" /\ (reached \/ exit \/ stop \/ force) THEN "reset"
        ELSE "none"

\* data.py:417-432: the flags left once the reset and continue requests are
\* taken (the stop branch at 404-413 returns before).
BeforeFinalize(branch, events) ==
    IF branch = "stop" THEN events
    ELSE IF "continue_after_reset" \in events
    THEN events \ {"continue_after_reset", "reset_requested"}
    ELSE events \ {"reset_requested"}

\* data.py:407 / 420 / 442: the branches that call _finalize_episode.
Finalizes(branch, state) ==
    \/ branch \in {"reset_record", "record"}
    \/ branch = "stop" /\ state \in {"record", "reset"}

\* data.py:408-412, 421-424, 443-463, 468-476: what a branch does after its
\* _finalize_episode call, reading the flags `events` as they are then: the
\* flags it leaves (post), the transition it makes (go) and whether it calls
\* clear_episode_buffer (clear). `done` is TargetReached at that point.
AfterFinalize(branch, events, force, done, reset_positive) ==
    LET stop == "stop_recording" \in events
        rerecord == "rerecord_episode" \in events
    IN  IF branch = "stop"
        THEN [post |-> events \ {"stop_recording", "exit_early", "rerecord_episode",
                                 "reset_requested"},
              go |-> "complete", clear |-> FALSE]
        ELSE IF branch = "reset_record"
        THEN [post |-> events, go |-> IF done THEN "complete" ELSE "reset",
              clear |-> FALSE]
        ELSE IF branch \in {"reset_reset", "continue"}
        THEN [post |-> events, go |-> "begin", clear |-> FALSE]
        ELSE IF branch = "record"
        THEN IF rerecord
             THEN [post |-> events \ {"rerecord_episode", "exit_early"},
                   go |-> "begin", clear |-> TRUE]
             ELSE [post |-> (events \ {"exit_early"})
                              \ (IF ~done /\ stop THEN {"stop_recording"} ELSE {}),
                   go |-> IF done \/ stop THEN "complete"
                          ELSE IF reset_positive /\ ~force THEN "reset"
                          ELSE "begin",
                   clear |-> FALSE]
        ELSE IF branch = "reset"
        THEN [post |-> (events \ {"exit_early"})
                         \ (IF stop THEN {"stop_recording"} ELSE {}),
              go |-> IF stop \/ done THEN "complete" ELSE "begin",
              clear |-> FALSE]
        ELSE [post |-> events, go |-> "none", clear |-> FALSE]

\* data.py:391-476: what one _update_state call decides when nothing else
\* touches the provider meanwhile: whether it calls _finalize_episode, the
\* flags it has cleared before that call (pre) and by the time it returns or
\* starts a transition (post), and the transition it makes (go).
UpdateState(state, events, reached, force, done, reset_positive) ==
    LET branch == UpdateBranch(state, events, reached, force)
        pre == BeforeFinalize(branch, events)
        after == AfterFinalize(branch, pre, force, done, reset_positive)
    IN  [fin |-> Finalizes(branch, state), pre |-> pre, post |-> after.post,
         go |-> after.go, clear |-> after.clear]

\* The first statement of the transition `go` (data.py:315, 327, 335).
FirstStep(go) ==
    IF go = "begin" THEN "begin_state"
    ELSE IF go = "reset" THEN "reset_state"
    ELSE IF go = "complete" THEN "complete_state"
    ELSE "idle"

\* No _update_state call of the thread is waiting on _finalize_episode.
NoBranch == [branch |-> "none", force |-> FALSE]

\* The thread is in the last branch of prepare (data.py:150-163).
InPrepare == [branch |-> "prepare", force |-> FALSE]

\* data.py:51-67: the provider after construction, over a dataset directory
\* without episodes.
DCInit ==
    /\ dc_state = "idle"
    /\ dc_deadline = None
    /\ dc_left = 0
    /\ dc_recording = FALSE
    /\ dc_dataset = FALSE
    /\ dc_buffer = 0
    /\ dc_sink = 0
    /\ dc_events = {}
    /\ dc_episodes = 0
    /\ dc_ticks = 0
    /\ dc_ctx = [t \in DCThreads |-> NoBranch]
    /\ dc_pc = [t \in DCThreads |-> "idle"]

\* data.py:53-55: num_episodes, episode_time_s and reset_time_s of the dataset
\* configuration; an episode lasts at least a millisecond (data.py:53).
DataSettings(target, episode_ticks, reset_ticks) ==
    /\ dc_target = target
    /\ dc_episode_ticks = episode_ticks
    /\ dc_reset_ticks = reset_ticks

\* A provider that counts from zero whenever it is prepared.
EpisodesOfNewSink(sink) == 0

\* data.py:137: prepare takes the episode count from the dataset it opened.
EpisodesOfSink(sink) == sink

\* data.py:387-389 / 261: thread t runs _update_state with the flags `events`
\* up to its _finalize_episode call, or to its end when it makes none.
DCUpdate(t, force, events) ==
    LET reached == dc_deadline # None /\ dc_left = 0
        branch == UpdateBranch(dc_state, events, reached, force)
        pre == BeforeFinalize(branch, events)
        after == AfterFinalize(branch, pre, force,
                               TargetReached(dc_target, dc_episodes),
                               dc_reset_ticks > 0)
    IN  IF Finalizes(branch, dc_state)
        THEN /\ dc_events' = pre
             /\ dc_ctx' = [dc_ctx EXCEPT ![t] = [branch |-> branch, force |-> force]]
             /\ dc_pc' = [dc_pc EXCEPT ![t] = "finalize"]
        ELSE /\ dc_events' = after.post
             /\ dc_ctx' = dc_ctx
             /\ dc_pc' = [dc_pc EXCEPT ![t] = FirstStep(after.go)]

\* data.py:355-371 and the rest of the branch that called it: _finalize_episode
\* saves the buffered frames as one episode, or finds no dataset or no frame;
\* the branch then clears its flags and starts its transition.
DCFinalize(t) ==
    /\ dc_pc[t] = "finalize"
    /\ LET saved == dc_dataset /\ dc_buffer > 0
           sink == IF saved THEN dc_sink + 1 ELSE dc_sink
           episodes == IF saved THEN sink ELSE dc_episodes
           after == AfterFinalize(dc_ctx[t].branch, dc_events, dc_ctx[t].force,
                                  TargetReached(dc_target, episodes),
                                  dc_reset_ticks > 0)
       IN  /\ saved => dc_sink < MaxEpisodes
           /\ dc_sink' = sink
           /\ dc_episodes' = episodes
           /\ dc_buffer' = IF saved \/ (after.clear /\ dc_dataset) THEN 0 ELSE dc_buffer
           /\ dc_events' = after.post
           /\ dc_pc' = [dc_pc EXCEPT ![t] = FirstStep(after.go)]
    /\ dc_ctx' = [dc_ctx EXCEPT ![t] = NoBranch]
    /\ UNCHANGED <<ai_pc, ai_pending, ai_batches, ai_chunks, ai_inferred, ai_requested,
                   ai_returned, dc_state, dc_deadline, dc_recording, dc_dataset,
                   dc_target, dc_episode_ticks, dc_reset_ticks, dc_left, dc_ticks,
                   orch_vars, edge_vars, md_vars, ctl_vars>>

\* data.py:368: save_episode raises; the exception leaves _update_state and
\* its caller.
DCSaveFails(t) ==
    /\ dc_pc[t] = "finalize"
    /\ dc_dataset /\ dc_buffer > 0
    /\ dc_ctx' = [dc_ctx EXCEPT ![t] = NoBranch]
    /\ dc_pc' = [dc_pc EXCEPT ![t] = "idle"]
    /\ UNCHANGED <<ai_pc, ai_pending, ai_batches, ai_chunks, ai_inferred, ai_requested,
                   ai_returned, dc_state, dc_deadline, dc_recording, dc_dataset,
                   dc_events, dc_episodes, dc_target, dc_episode_ticks, dc_reset_ticks,
                   dc_left, dc_buffer, dc_sink, dc_ticks, orch_vars, edge_vars,
                   md_vars, ctl_vars>>

\* data.py:204-206: compute_command refuses to run without a dataset.
DCComputeEnter ==
    /\ dc_pc["rpc"] = "idle"
    /\ dc_dataset
    /\ dc_pc' = [dc_pc EXCEPT !["rpc"] = "frame"]
    /\ UNCHANGED <<ai_pc, ai_pending, ai_batches, ai_chunks, ai_inferred, ai_requested,
                   ai_returned, dc_state, dc_deadline, dc_recording, dc_dataset,
                   dc_events, dc_episodes, dc_target, dc_episode_ticks, dc_reset_ticks,
                   dc_left, dc_buffer, dc_sink, dc_ctx, dc_ticks, orch_vars, edge_vars,
                   md_vars, ctl_vars>>

\* Time moves on by one tick of the control loop.
DCTimePasses ==
    /\ dc_left > 0
    /\ dc_left' = dc_left - 1
    /\ UNCHANGED <<ai_pc, ai_pending, ai_batches, ai_chunks, ai_inferred, ai_requested,
                   ai_returned, dc_state, dc_deadline, dc_recording, dc_dataset,
                   dc_events, dc_episodes, dc_target, dc_episode_ticks, dc_reset_ticks,
                   dc_buffer, dc_sink, dc_ctx, dc_ticks, dc_pc, orch_vars, edge_vars,
                   md_vars, ctl_vars>>

\* data.py:238-249: the frame is buffered while recording is enabled; without
\* a dataset the attribute access at 245 raises.
DCAddFrame ==
    /\ dc_pc["rpc"] = "frame"
    /\ IF dc_recording /\ dc_dataset
       THEN /\ dc_buffer' = IF dc_buffer < MaxFrames THEN dc_buffer + 1 ELSE dc_buffer
            /\ dc_pc' = [dc_pc EXCEPT !["rpc"] = "update"]
       ELSE /\ dc_buffer' = dc_buffer
            /\ dc_pc' = [dc_pc EXCEPT !["rpc"] = IF dc_recording THEN "idle" ELSE "update"]
    /\ UNCHANGED <<ai_pc, ai_pending, ai_batches, ai_chunks, ai_inferred, ai_requested,
                   ai_returned, dc_state, dc_deadline, dc_recording, dc_dataset,
                   dc_events, dc_episodes, dc_target, dc_episode_ticks, dc_reset_ticks,
                   dc_left, dc_sink, dc_ctx, dc_ticks, orch_vars, edge_vars, md_vars,
                   ctl_vars>>

\* data.py:260-263: the tick ends with _update_state(now).
DCComputeUpdate ==
    /\ dc_pc["rpc"] = "update"
    /\ DCUpdate("rpc", FALSE, dc_events)
    /\ UNCHANGED <<ai_pc, ai_pending, ai_batches, ai_chunks, ai_inferred, ai_requested,
                   ai_returned, dc_state, dc_deadline, dc_recording, dc_dataset,
                   dc_episodes, dc_target, dc_episode_ticks, dc_reset_ticks, dc_left,
                   dc_buffer, dc_sink, dc_ticks, orch_vars, edge_vars, md_vars,
                   ctl_vars>>

\* data.py:73-104: handle_control_command.
DCControl ==
    /\ dc_pc["disp"] = "idle"
    /\ \E command \in Commands :
         DCUpdate("disp", ForceOfCommand(command),
                  dc_events \cup EventsOfCommand(command))
    /\ UNCHANGED <<ai_pc, ai_pending, ai_batches, ai_chunks, ai_inferred, ai_requested,
                   ai_returned, dc_state, dc_deadline, dc_recording, dc_dataset,
                   dc_episodes, dc_target, dc_episode_ticks, dc_reset_ticks, dc_left,
                   dc_buffer, dc_sink, dc_ticks, orch_vars, edge_vars, md_vars,
                   ctl_vars>>

\* data.py:106-150: prepare opens the dataset and reads its episode count; the
\* video manager may fail once the dataset is there.
DCPrepare ==
    /\ dc_pc["disp"] = "idle"
    /\ dc_dataset' = TRUE
    /\ dc_buffer' = 0
    /\ dc_ticks' = 0
    /\ dc_episodes' = EpisodesOfSink(dc_sink)
    /\ \/ /\ dc_pc' = [dc_pc EXCEPT !["disp"] = "idle"]
          /\ dc_ctx' = dc_ctx
       \/ /\ dc_pc' = [dc_pc EXCEPT !["disp"] =
                         IF TargetReached(dc_target, dc_episodes')
                         THEN "pcomplete_state" ELSE "begin_state"]
          /\ dc_ctx' = [dc_ctx EXCEPT !["disp"] = InPrepare]
    /\ UNCHANGED <<ai_pc, ai_pending, ai_batches, ai_chunks, ai_inferred, ai_requested,
                   ai_returned, dc_state, dc_deadline, dc_recording, dc_events,
                   dc_target, dc_episode_ticks, dc_reset_ticks, dc_left, dc_sink,
                   orch_vars, edge_vars, md_vars, ctl_vars>>

\* data.py:151-153: the dataset already holds every episode.
DCPrepareComplete ==
    /\ dc_pc["disp"] \in {"pcomplete_state", "pcomplete_rec", "pcomplete_deadline"}
    /\ IF dc_pc["disp"] = "pcomplete_state"
       THEN /\ dc_state' = "complete"
            /\ dc_pc' = [dc_pc EXCEPT !["disp"] = "pcomplete_rec"]
            /\ UNCHANGED <<dc_recording, dc_deadline>>
       ELSE IF dc_pc["disp"] = "pcomplete_rec"
       THEN /\ dc_recording' = FALSE
            /\ dc_pc' = [dc_pc EXCEPT !["disp"] = "pcomplete_deadline"]
            /\ UNCHANGED <<dc_state, dc_deadline>>
       ELSE /\ dc_deadline' = None
            /\ dc_pc' = [dc_pc EXCEPT !["disp"] = "idle"]
            /\ UNCHANGED <<dc_state, dc_recording>>
    /\ dc_ctx' = [dc_ctx EXCEPT !["disp"] =
                   IF dc_pc["disp"] = "pcomplete_deadline" THEN NoBranch ELSE @]
    /\ UNCHANGED <<ai_pc, ai_pending, ai_batches, ai_chunks, ai_inferred, ai_requested,
                   ai_returned, dc_dataset, dc_events, dc_episodes, dc_target,
                   dc_episode_ticks, dc_reset_ticks, dc_left, dc_buffer, dc_sink,
                   dc_ticks, orch_vars, edge_vars, md_vars, ctl_vars>>

\* data.py:314-317: _begin_recording, statement by statement.
DCBeginRecording(t) ==
    /\ dc_pc[t] \in {"begin_state", "begin_rec", "begin_deadline"}
    /\ IF dc_pc[t] = "begin_state"
       THEN /\ dc_state' = "record"
            /\ dc_pc' = [dc_pc EXCEPT ![t] = "begin_rec"]
            /\ UNCHANGED <<dc_recording, dc_deadline, dc_left>>
       ELSE IF dc_pc[t] = "begin_rec"
       THEN /\ dc_recording' = TRUE
            /\ dc_pc' = [dc_pc EXCEPT ![t] = "begin_deadline"]
            /\ UNCHANGED <<dc_state, dc_deadline, dc_left>>
       ELSE /\ dc_deadline' = "set"
            /\ dc_left' = dc_episode_ticks
            /\ dc_pc' = [dc_pc EXCEPT ![t] = "idle"]
            /\ UNCHANGED <<dc_state, dc_recording>>
    /\ dc_ctx' = [dc_ctx EXCEPT ![t] = IF dc_pc[t] = "begin_deadline" THEN NoBranch ELSE @]
    /\ UNCHANGED <<ai_pc, ai_pending, ai_batches, ai_chunks, ai_inferred, ai_requested,
                   ai_returned, dc_dataset, dc_events, dc_episodes, dc_target,
                   dc_episode_ticks, dc_reset_ticks, dc_buffer, dc_sink, dc_ticks,
                   orch_vars, edge_vars, md_vars, ctl_vars>>

\* data.py:326-329: _enter_reset, statement by statement.
DCEnterReset(t) ==
    /\ dc_pc[t] \in {"reset_state", "reset_rec", "reset_deadline"}
    /\ IF dc_pc[t] = "reset_state"
       THEN /\ dc_state' = "reset"
            /\ dc_pc' = [dc_pc EXCEPT ![t] = "reset_rec"]
            /\ UNCHANGED <<dc_recording, dc_deadline, dc_left>>
       ELSE IF dc_pc[t] = "reset_rec"
       THEN /\ dc_recording' = FALSE
            /\ dc_pc' = [dc_pc EXCEPT ![t] = "reset_deadline"]
            /\ UNCHANGED <<dc_state, dc_deadline, dc_left>>
       ELSE /\ dc_deadline' = "set"
            /\ dc_left' = dc_reset_ticks
            /\ dc_pc' = [dc_pc EXCEPT ![t] = "idle"]
            /\ UNCHANGED <<dc_state, dc_recording>>
    /\ UNCHANGED <<ai_pc, ai_pending, ai_batches, ai_chunks, ai_inferred, ai_requested,
                   ai_returned, dc_dataset, dc_events, dc_episodes, dc_target,
                   dc_episode_ticks, dc_reset_ticks, dc_buffer, dc_sink, dc_ctx,
                   dc_ticks, orch_vars, edge_vars, md_vars, ctl_vars>>

\* data.py:334-353: _mark_complete, statement by statement; it ends by
\* clearing every flag.
DCMarkComplete(t) ==
    /\ dc_pc[t] \in {"complete_state", "complete_rec", "complete_deadline",
                     "complete_events"}
    /\ IF dc_pc[t] = "complete_state"
       THEN /\ dc_state' = "complete"
            /\ dc_pc' = [dc_pc EXCEPT ![t] = "complete_rec"]
            /\ UNCHANGED <<dc_recording, dc_deadline, dc_left, dc_events>>
       ELSE IF dc_pc[t] = "complete_rec"
       THEN /\ dc_recording' = FALSE
            /\ dc_pc' = [dc_pc EXCEPT ![t] = "complete_deadline"]
            /\ UNCHANGED <<dc_state, dc_deadline, dc_left, dc_events>>
       ELSE IF dc_pc[t] = "complete_deadline"
       THEN /\ dc_deadline' = None
            /\ dc_left' = 0
            /\ dc_pc' = [dc_pc EXCEPT ![t] = "complete_events"]
            /\ UNCHANGED <<dc_state, dc_recording, dc_events>>
       ELSE /\ dc_events' = {}
            /\ dc_pc' = [dc_pc EXCEPT ![t] = "idle"]
            /\ UNCHANGED <<dc_state, dc_recording, dc_deadline, dc_left>>
    /\ UNCHANGED <<ai_pc, ai_pending, ai_batches, ai_chunks, ai_inferred, ai_requested,
                   ai_returned, dc_dataset, dc_episodes, dc_target, dc_episode_ticks,
                   dc_reset_ticks, dc_buffer, dc_sink, dc_ctx, dc_ticks, orch_vars,
                   edge_vars, md_vars, ctl_vars>>

\* data.py:164-168 / 373-385: shutdown starts with _finalize_partial_episode,
\* which saves the buffered frames when recording is enabled.
DCShutdown ==
    /\ dc_pc["disp"] = "idle"
    /\ LET saved == dc_dataset /\ dc_recording /\ dc_buffer > 0
       IN  /\ saved => dc_sink < MaxEpisodes
           /\ dc_sink' = IF saved THEN dc_sink + 1 ELSE dc_sink
           /\ dc_episodes' = IF saved THEN dc_sink' ELSE dc_episodes
           /\ dc_buffer' = IF saved THEN 0 ELSE dc_buffer
    /\ dc_pc' = [dc_pc EXCEPT !["disp"] = "shut_rec"]
    /\ UNCHANGED <<ai_pc, ai_pending, ai_batches, ai_chunks, ai_inferred, ai_requested,
                   ai_returned, dc_state, dc_deadline, dc_recording, dc_dataset,
                   dc_events, dc_target, dc_episode_ticks, dc_reset_ticks, dc_left,
                   dc_ctx, dc_ticks, orch_vars, edge_vars, md_vars, ctl_vars>>

\* data.py:168 / 196: shutdown disables recording, then drops the dataset and
\* with it the frames still in its buffer.
DCShutdownDispose ==
    /\ dc_pc["disp"] \in {"shut_rec", "shut_dataset"}
    /\ IF dc_pc["disp"] = "shut_rec"
       THEN /\ dc_recording' = FALSE
            /\ dc_pc' = [dc_pc EXCEPT !["disp"] = "shut_dataset"]
            /\ UNCHANGED <<dc_dataset, dc_buffer>>
       ELSE /\ dc_dataset' = FALSE
            /\ dc_buffer' = 0
            /\ dc_pc' = [dc_pc EXCEPT !["disp"] = "shut_state"]
            /\ dc_recording' = dc_recording
    /\ UNCHANGED <<ai_pc, ai_pending, ai_batches, ai_chunks, ai_inferred, ai_requested,
                   ai_returned, dc_state, dc_deadline, dc_events, dc_episodes,
                   dc_target, dc_episode_ticks, dc_reset_ticks, dc_left, dc_sink,
                   dc_ctx, dc_ticks, orch_vars, edge_vars, md_vars, ctl_vars>>

\* data.py:199-200: the last two assignments of shutdown.
DCShutdownTail ==
    /\ dc_pc["disp"] \in {"shut_state", "shut_deadline"}
    /\ IF dc_pc["disp"] = "shut_state"
       THEN /\ dc_state' = "idle"
            /\ dc_pc' = [dc_pc EXCEPT !["disp"] = "shut_deadline"]
            /\ UNCHANGED <<dc_deadline, dc_left>>
       ELSE /\ dc_deadline' = None
            /\ dc_left' = 0
            /\ dc_pc' = [dc_pc EXCEPT !["disp"] = "idle"]
            /\ dc_state' = dc_state
    /\ UNCHANGED <<ai_pc, ai_pending, ai_batches, ai_chunks, ai_inferred, ai_requested,
                   ai_returned, dc_recording, dc_dataset, dc_events, dc_episodes,
                   dc_target, dc_episode_ticks, dc_reset_ticks, dc_buffer, dc_sink,
                   dc_ctx, dc_ticks, orch_vars, edge_vars, md_vars, ctl_vars>>

\* get_action ticks on the RPC thread while the other thread prepares, shuts
\* down and hands over control commands, and time passes.
DCNext ==
    \/ DCComputeEnter
    \/ DCTimePasses
    \/ DCAddFrame
    \/ DCComputeUpdate
    \/ DCControl
    \/ DCPrepare
    \/ DCPrepareComplete
    \/ DCShutdown
    \/ DCShutdownDispose
    \/ DCShutdownTail
    \/ \E t \in DCThreads :
         \/ DCFinalize(t)
         \/ DCSaveFails(t)
         \/ DCBeginRecording(t)
         \/ DCEnterReset(t)
         \/ DCMarkComplete(t)

\* prepare succeeds on a provider that was not prepared.
DCFirstPrepare ==
    /\ ~dc_dataset
    /\ DCPrepare
    /\ dc_pc'["disp"] # "idle"

\* command_loop.py:70-72 / data.py:204-206, 260: the robot asks for an action
\* once per period, so each compute_command call finds the clock one tick
\* further; no call is made while prepare runs.
DCPacedEnter ==
    /\ dc_pc = [t \in DCThreads |-> "idle"]
    /\ dc_dataset
    /\ dc_ticks < MaxTicks
    /\ dc_ticks' = dc_ticks + 1
    /\ dc_left' = IF dc_left > 0 THEN dc_left - 1 ELSE 0
    /\ dc_pc' = [dc_pc EXCEPT !["rpc"] = "frame"]
    /\ UNCHANGED <<ai_pc, ai_pending, ai_batches, ai_chunks, ai_inferred, ai_requested,
                   ai_returned, dc_state, dc_deadline, dc_recording, dc_dataset,
                   dc_events, dc_episodes, dc_target, dc_episode_ticks, dc_reset_ticks,
                   dc_buffer, dc_sink, dc_ctx, orch_vars, edge_vars, md_vars, ctl_vars>>

\* One prepare, then get_action ticks at the loop rate and nothing else.
EpisodeNext ==
    \/ DCFirstPrepare
    \/ DCPacedEnter
    \/ DCAddFrame
    \/ DCComputeUpdate
    \/ DCFinalize("rpc")
    \/ DCEnterReset("rpc")
    \/ DCMarkComplete("rpc")
    \/ \E t \in DCThreads : DCBeginRecording(t)

\* ------------------------------------------------------ SocketModeDispatcher
\* socket.py:95-110: one _client_loop thread per connection.
MClients == {"c1", "c2"}

\* Mode events the dispatcher accepts in one run.
MaxEvents == 3

\* A JSON scalar, or a JSON object with the keys "mode" and "command" (None
\* where the key is absent or null).
Scalar(text) == [map |-> FALSE, scalar |-> text, mode |-> None, command |-> None]
Mapping(mode, command) == [map |-> TRUE, scalar |-> None, mode |-> mode, command |-> command]

\* Python truthiness of an optional string.
Truthy(text) == text \notin {None, ""}

\* The lines a client sends: nothing but the newline, blanks, text that is
\* not JSON, JSON that is not an object, and JSON objects with one key.
MLines ==
    {[kind |-> k, key |-> None, value |-> Scalar(None)] :
        k \in {"empty", "spaces", "garbage", "array"}}
    \cup {[kind |-> "object", key |-> "data", value |-> Scalar(s)] : s \in {"", "stop"}}
    \cup {[kind |-> "object", key |-> "data", value |-> Mapping(m, c)] :
            m \in {None, "leader"}, c \in {None, "stop"}}
    \cup {[kind |-> "object", key |-> k, value |-> Scalar("go")] :
            k \in {"infer", "shutdown", "other"}}

NoLine == [kind |-> "none", key |-> None, value |-> Scalar(None)]

\* socket.py:120-122: the line is empty once stripped.
Blank(line) == line.kind \in {"empty", "spaces"}

\* events.py:10-28: the events of the listener interface.
TeleopModeEvent(alias) == [kind |-> "teleop", arg |-> alias]
InferenceModeEvent(instruction) == [kind |-> "infer", arg |-> instruction]
IdleModeEvent(reason) == [kind |-> "idle", arg |-> reason]
ShutdownModeEvent(reason) == [kind |-> "shutdown", arg |-> reason]

\* commands.py:28 / 34: the event commands.py builds for a data command;
\* events.py does not define the class.
DataModeEvent(command) == [kind |-> "data", arg |-> command]

NoEvent == [kind |-> "none", arg |-> None, id |-> 0]

\* commands.py:16-51: the events enqueue_mode_command puts on the queue for
\* the object `line`, in order, and what it returns.
EnqueueModeCommand(line) ==
    LET value == line.value
    IN  IF line.key = "data"
        THEN IF value.map
             THEN [events |->
                     (IF value.mode # None
                      THEN <<TeleopModeEvent(IF Truthy(value.mode) THEN value.mode
                                             ELSE "data")>>
                      ELSE <<>>)
                     \o (IF Truthy(value.command)
                         THEN <<DataModeEvent(value.command)>> ELSE <<>>),
                   dispatched |-> value.mode # None \/ Truthy(value.command)]
             ELSE [events |-> IF Truthy(value.scalar)
                              THEN <<DataModeEvent(value.scalar)>>
                              ELSE <<TeleopModeEvent("data")>>,
                   dispatched |-> TRUE]
        ELSE IF line.key = "teleop"
        THEN [events |-> <<TeleopModeEvent(value.scalar)>>, dispatched |-> TRUE]
        ELSE IF line.key = "infer"
        THEN [events |-> <<InferenceModeEvent(value.scalar)>>, dispatched |-> TRUE]
        ELSE IF line.key = "idle"
        THEN [events |-> <<IdleModeEvent(IF Truthy(value.scalar) THEN value.scalar
                                         ELSE None)>>,
              dispatched |-> TRUE]
        ELSE IF line.key = "shutdown"
        THEN [events |-> <<ShutdownModeEvent(IF Truthy(value.scalar) THEN value.scalar
                                             ELSE None)>>,
              dispatched |-> TRUE]
        ELSE [events |-> <<>>, dispatched |-> FALSE]

\* A dispatcher that answers OK whatever enqueue_mode_command returned.
ResponseAlwaysOK(dispatched) == "OK"

\* socket.py:131-134: the answer to a JSON object.
Response(dispatched) == IF dispatched THEN "OK" ELSE "ERROR: unsupported command"

NoResponse == [client |-> None, text |-> None]

\* A queue that hands out its newest entry.
QueueGetNewest(entries) == entries[Len(entries)]

\* socket.py:162: queue.Queue.get returns the oldest entry.
QueueGet(entries) == Head(entries)

\* mode_manager.py:42-87: the branch of ModeManager._handle_event that acts on
\* an event, with an AI provider and an idle provider configured.
HandleEvent(event, shutting_down) ==
    IF shutting_down THEN "ignored"
    ELSE IF event.kind = "teleop" THEN "set_mode"
    ELSE IF event.kind = "infer" THEN "set_instruction"
    ELSE IF event.kind = "idle" THEN "idle_mode"
    ELSE IF event.kind = "shutdown" THEN "shutdown"
    ELSE "ignored"

\* socket.py:35-43 / mode_manager.py:27: the dispatcher started, no client line
\* read yet.
MDInit ==
    /\ md_pc = [c \in MClients |-> "read"]
    /\ md_line = [c \in MClients |-> NoLine]
    /\ md_todo = [c \in MClients |-> <<>>]
    /\ md_enq = [c \in MClients |-> 0]
    /\ md_out = NoResponse
    /\ md_queue = <<>>
    /\ md_count = 0
    /\ md_done = 0
    /\ md_dpc = "get"
    /\ md_event = NoEvent
    /\ md_handled = "none"
    /\ md_shutting_down = FALSE

\* socket.py:117-119: the client thread reads the next line of its connection.
ClientRead(c) ==
    /\ md_pc[c] = "read"
    /\ \E line \in MLines :
         /\ md_count + Len(EnqueueModeCommand(line).events) <= MaxEvents
         /\ md_line' = [md_line EXCEPT ![c] = line]
    /\ md_enq' = [md_enq EXCEPT ![c] = 0]
    /\ md_pc' = [md_pc EXCEPT ![c] = "parse"]
    /\ md_out' = NoResponse
    /\ UNCHANGED <<md_todo, md_queue, md_count, md_done, md_dpc, md_event, md_handled,
                   md_shutting_down, orch_vars, edge_vars, prov_vars, ctl_vars>>

\* socket.py:120-130, 167-171: a blank line is skipped, a line that is not a
\* JSON object is answered with an error, a JSON object goes to
\* enqueue_mode_command.
ClientParse(c) ==
    /\ md_pc[c] = "parse"
    /\ LET line == md_line[c]
       IN  IF line.kind = "object"
           THEN /\ md_out' = NoResponse
                /\ md_line' = md_line
                /\ md_todo' = [md_todo EXCEPT ![c] = EnqueueModeCommand(line).events]
                /\ md_pc' = [md_pc EXCEPT ![c] =
                               IF EnqueueModeCommand(line).events = <<>>
                               THEN "respond" ELSE "put"]
           ELSE /\ md_out' =
                     IF Blank(line) THEN NoResponse
                     ELSE IF line.kind = "garbage"
                     THEN [client |-> c, text |-> "ERROR: invalid JSON"]
                     ELSE [client |-> c, text |-> "ERROR: command must be a JSON object"]
                /\ md_line' = [md_line EXCEPT ![c] = NoLine]
                /\ md_pc' = [md_pc EXCEPT ![c] = "read"]
                /\ md_todo' = md_todo
    /\ UNCHANGED <<md_enq, md_queue, md_count, md_done, md_dpc, md_event, md_handled,
                   md_shutting_down, orch_vars, edge_vars, prov_vars, ctl_vars>>

\* commands.py:25-49: one queue_obj.put.
ClientPut(c) ==
    /\ md_pc[c] = "put"
    /\ md_count' = md_count + 1
    /\ md_queue' = Append(md_queue, [kind |-> Head(md_todo[c]).kind,
                                     arg |-> Head(md_todo[c]).arg,
                                     id |-> md_count'])
    /\ md_todo' = [md_todo EXCEPT ![c] = Tail(@)]
    /\ md_enq' = [md_enq EXCEPT ![c] = @ + 1]
    /\ md_pc' = [md_pc EXCEPT ![c] = IF Tail(md_todo[c]) = <<>> THEN "respond" ELSE "put"]
    /\ md_out' = NoResponse
    /\ UNCHANGED <<md_line, md_done, md_dpc, md_event, md_handled, md_shutting_down,
                   orch_vars, edge_vars, prov_vars, ctl_vars>>

\* socket.py:131-134: the answer to the object.
ClientRespond(c) ==
    /\ md_pc[c] = "respond"
    /\ md_out' = [client |-> c,
                  text |-> Response(EnqueueModeCommand(md_line[c]).dispatched)]
    /\ md_line' = [md_line EXCEPT ![c] = NoLine]
    /\ md_enq' = [md_enq EXCEPT ![c] = 0]
    /\ md_pc' = [md_pc EXCEPT ![c] = "read"]
    /\ UNCHANGED <<md_todo, md_queue, md_count, md_done, md_dpc, md_event, md_handled,
                   md_shutting_down, orch_vars, edge_vars, prov_vars, ctl_vars>>

\* socket.py:160-165 / mode_manager.py:42-87: the dispatcher thread takes the
\* next event and calls listener(event), which enters the branch for it.
DispatchGet ==
    /\ md_dpc = "get"
    /\ md_queue # <<>>
    /\ md_event' = QueueGet(md_queue)
    /\ md_queue' = Tail(md_queue)
    /\ md_done' = md_done + 1
    /\ md_handled' = HandleEvent(md_event', md_shutting_down)
    /\ md_dpc' = "call"
    /\ md_out' = NoResponse
    /\ UNCHANGED <<md_pc, md_line, md_todo, md_enq, md_count, md_shutting_down,
                   orch_vars, edge_vars, prov_vars, ctl_vars>>

\* socket.py:165 / mode_manager.py:42-87: the listener returns; after a
\* shutdown event the manager ignores what follows.
DispatchListener ==
    /\ md_dpc = "call"
    /\ md_shutting_down' = (md_shutting_down \/ md_event.kind = "shutdown")
    /\ md_handled' = "none"
    /\ md_event' = NoEvent
    /\ md_dpc' = "get"
    /\ md_out' = NoResponse
    /\ UNCHANGED <<md_pc, md_line, md_todo, md_enq, md_queue, md_count, md_done,
                   orch_vars, edge_vars, prov_vars, ctl_vars>>

\* The client threads and the dispatcher thread.
DispatchNext ==
    \/ \E c \in MClients :
         \/ ClientRead(c)
         \/ ClientParse(c)
         \/ ClientPut(c)
         \/ ClientRespond(c)
    \/ DispatchGet
    \/ DispatchListener

\* ------------------------------------------- RobotControlService action filter
\* The keys of the action maps and the values they carry.
FKeys == {"a", "b"}

Samples == {0, 2}

\* ActionFilterConfig.window_size as it defaults (config.py:37).
WindowSize == 3

\* An action map: the keys it has and their values (0 stands at an absent key).
EmptyMap == [keys |-> {}, val |-> [k \in FKeys |-> 0]]

ActionMaps ==
    {m \in [keys : SUBSET FKeys, val : [FKeys -> Samples]] :
        \A k \in FKeys \ m.keys : m.val[k] = 0}

NoLastOutput == [set |-> FALSE, keys |-> {}, val |-> [k \in FKeys |-> 0]]

RECURSIVE Insert(_, _)
Insert(x, s) ==
    IF s = <<>> THEN <<x>>
    ELSE IF x <= Head(s) THEN <<x>> \o s
    ELSE <<Head(s)>> \o Insert(x, Tail(s))

RECURSIVE Sorted(_)
Sorted(s) == IF s = <<>> THEN <<>> ELSE Insert(Head(s), Sorted(Tail(s)))

\* statistics.median: the middle element, or the mean of the two middle ones.
Median(buf) ==
    LET s == Sorted(buf)
        n == Len(s)
    IN IF n % 2 = 1 THEN s[(n + 1) \div 2]
       ELSE (s[n \div 2] + s[n \div 2 + 1]) \div 2

\* deque(maxlen=n).append (service.py:43-44).
DequeAppend(buf, x, maxlen) ==
    IF Len(buf) >= maxlen THEN Tail(buf) \o <<x>> ELSE Append(buf, x)

\* service.py:38-46: _MedianActionFilter.apply.
MedianApply(window, buffers, actions) ==
    IF window <= 1 THEN [buffers |-> buffers, out |-> actions]
    ELSE LET appended ==
                 [k \in FKeys |->
                    IF k \in actions.keys
                    THEN DequeAppend(buffers[k], actions.val[k], window)
                    ELSE buffers[k]]
         IN [buffers |-> appended,
             out |-> [keys |-> actions.keys,
                      val |-> [k \in FKeys |->
                                 IF k \in actions.keys THEN Median(appended[k])
                                 ELSE 0]]]

\* service.py:63: (1.0 - alpha) * prev + alpha * value, for alpha 0 or 1.
Blend(alpha, prev, value) == (1 - alpha) * prev + alpha * value

\* service.py:55-73: _MedianLowPassFilter.apply after the median stage.
LowPassApply(alpha, last, median_output) ==
    IF ~last.set
    THEN [last |-> [set |-> TRUE, keys |-> median_output.keys,
                    val |-> median_output.val],
          out |-> median_output]
    ELSE LET blended ==
                 [keys |-> median_output.keys,
                  val |-> [k \in FKeys |->
                             IF k \in median_output.keys
                             THEN Blend(alpha,
                                        IF k \in last.keys THEN last.val[k]
                                        ELSE median_output.val[k],
                                        median_output.val[k])
                             ELSE 0]]
         IN [last |-> [set |-> TRUE, keys |-> blended.keys, val |-> blended.val],
             out |-> blended]

\* service.py:34-36, 50-53: the filter after construction.
FilterInit ==
    /\ mf_buffers = [k \in FKeys |-> <<>>]
    /\ mf_last = NoLastOutput
    /\ mf_in = EmptyMap
    /\ mf_out = EmptyMap

\* service.py:35, 52: window_size and blend_alpha as configured.
FilterSettings(window, alpha) ==
    /\ mf_window = IF window < 1 THEN 1 ELSE window
    /\ mf_alpha = alpha

\* service.py:148-153: _apply_action_filter; an empty map does not reach the
\* filter.
ApplyActionFilter ==
    \E actions \in ActionMaps :
        /\ mf_in' = actions
        /\ IF actions.keys = {}
           THEN /\ mf_out' = EmptyMap
                /\ UNCHANGED <<mf_buffers, mf_last>>
           ELSE LET med == MedianApply(mf_window, mf_buffers, actions)
                    low == LowPassApply(mf_alpha, mf_last, med.out)
                IN /\ mf_buffers' = med.buffers
                   /\ mf_last' = low.last
                   /\ mf_out' = low.out
    /\ UNCHANGED <<mf_window, mf_alpha, cw_interval, cw_latest, cw_event, cw_stop,
                   cw_last_emit, cw_pc, cw_frame, cw_stamp, cw_now, cw_ppc, cw_pnow,
                   cw_submitted, cw_queue, orch_vars, edge_vars, prov_vars, md_vars>>

FilterNext == ApplyActionFilter

\* ------------------------------------------------------------ _CameraWorker
\* 1.0 / fps of a rate limited source, in clock ticks (camera_streamer.py:124).
MinInterval == 2

\* Frames the control loop hands to the worker, and how far the clock runs.
MaxSubmits == 3

MaxTime == 6

\* camera_streamer.py:27-33: the worker after construction; the wall clock is
\* further than min_interval from the 0.0 that _last_emit starts at.
CameraInit ==
    /\ cw_latest = 0
    /\ cw_event = FALSE
    /\ cw_stop = FALSE
    /\ cw_last_emit = 0
    /\ cw_pc = "loop"
    /\ cw_frame = 0
    /\ cw_stamp = 0
    /\ cw_now = MinInterval
    /\ cw_ppc = "idle"
    /\ cw_pnow = 0
    /\ cw_submitted = 0
    /\ cw_queue = <<>>

\* camera_streamer.py:124: min_interval of the source.
CameraSettings(interval) == cw_interval = interval

\* camera_streamer.py:156: the source is rate limited and the frame comes too
\* early after the last emit.
TooEarly(interval, now, last_emit) == interval # 0 /\ now - last_emit < interval

\* Time passes.
ClockTick ==
    /\ cw_now < MaxTime
    /\ cw_now' = cw_now + 1
    /\ UNCHANGED <<mf_window, mf_alpha, mf_buffers, mf_last, mf_in, mf_out,
                   cw_interval, cw_latest, cw_event, cw_stop, cw_last_emit, cw_pc,
                   cw_frame, cw_stamp, cw_ppc, cw_pnow, cw_submitted, cw_queue,
                   orch_vars, edge_vars, prov_vars, md_vars>>

\* camera_streamer.py:149-155: publish reads the clock and finds a frame for
\* the worker in the observation.
PublishEnter ==
    /\ cw_ppc = "idle"
    /\ ~cw_stop
    /\ cw_submitted < MaxSubmits
    /\ cw_pnow' = cw_now
    /\ cw_ppc' = "check"
    /\ UNCHANGED <<mf_window, mf_alpha, mf_buffers, mf_last, mf_in, mf_out,
                   cw_interval, cw_latest, cw_event, cw_stop, cw_last_emit, cw_pc,
                   cw_frame, cw_stamp, cw_now, cw_submitted, cw_queue, orch_vars,
                   edge_vars, prov_vars, md_vars>>

\* camera_streamer.py:156-157: the rate test against the worker's _last_emit.
PublishCheck ==
    /\ cw_ppc = "check"
    /\ cw_ppc' = IF TooEarly(cw_interval, cw_pnow, cw_last_emit) THEN "idle" ELSE "append"
    /\ UNCHANGED <<mf_window, mf_alpha, mf_buffers, mf_last, mf_in, mf_out,
                   cw_interval, cw_latest, cw_event, cw_stop, cw_last_emit, cw_pc,
                   cw_frame, cw_stamp, cw_now, cw_pnow, cw_submitted, cw_queue,
                   orch_vars, edge_vars, prov_vars, md_vars>>

\* camera_streamer.py:36: submit puts the frame in the one-slot deque.
SubmitAppend ==
    /\ cw_ppc = "append"
    /\ cw_submitted' = cw_submitted + 1
    /\ cw_latest' = cw_submitted + 1
    /\ cw_ppc' = "set"
    /\ UNCHANGED <<mf_window, mf_alpha, mf_buffers, mf_last, mf_in, mf_out,
                   cw_interval, cw_event, cw_stop, cw_last_emit, cw_pc, cw_frame,
                   cw_stamp, cw_now, cw_pnow, cw_queue, orch_vars, edge_vars,
                   prov_vars, md_vars>>

\* camera_streamer.py:37: submit signals the worker.
SubmitSignal ==
    /\ cw_ppc = "set"
    /\ cw_event' = TRUE
    /\ cw_ppc' = "idle"
    /\ UNCHANGED <<mf_window, mf_alpha, mf_buffers, mf_last, mf_in, mf_out,
                   cw_interval, cw_latest, cw_stop, cw_last_emit, cw_pc, cw_frame,
                   cw_stamp, cw_now, cw_pnow, cw_submitted, cw_queue, orch_vars,
                   edge_vars, prov_vars, md_vars>>

\* camera_streamer.py:39-41, called by close() on the control loop's thread.
WorkerStop ==
    /\ cw_ppc = "idle"
    /\ ~cw_stop
    /\ cw_stop' = TRUE
    /\ cw_event' = TRUE
    /\ UNCHANGED <<mf_window, mf_alpha, mf_buffers, mf_last, mf_in, mf_out,
                   cw_interval, cw_latest, cw_last_emit, cw_pc, cw_frame, cw_stamp,
                   cw_now, cw_ppc, cw_pnow, cw_submitted, cw_queue, orch_vars,
                   edge_vars, prov_vars, md_vars>>

\* camera_streamer.py:45: `while not self._stop.is_set()`.
LoopTest ==
    /\ cw_pc = "loop"
    /\ cw_pc' = IF cw_stop THEN "done" ELSE "wait"
    /\ UNCHANGED <<mf_window, mf_alpha, mf_buffers, mf_last, mf_in, mf_out,
                   cw_interval, cw_latest, cw_event, cw_stop, cw_last_emit, cw_frame,
                   cw_stamp, cw_now, cw_ppc, cw_pnow, cw_submitted, cw_queue,
                   orch_vars, edge_vars, prov_vars, md_vars>>

\* camera_streamer.py:46-48: wait returns on the signal or after 0.5 s.
LoopWait ==
    /\ cw_pc = "wait"
    /\ cw_pc' = IF cw_stop THEN "done" ELSE "test"
    /\ UNCHANGED <<mf_window, mf_alpha, mf_buffers, mf_last, mf_in, mf_out,
                   cw_interval, cw_latest, cw_event, cw_stop, cw_last_emit, cw_frame,
                   cw_stamp, cw_now, cw_ppc, cw_pnow, cw_submitted, cw_queue,
                   orch_vars, edge_vars, prov_vars, md_vars>>

\* camera_streamer.py:49-50: `frame = None; if self._latest`.
LoopTestLatest ==
    /\ cw_pc = "test"
    /\ cw_frame' = 0
    /\ cw_pc' = IF cw_latest # 0 THEN "pop" ELSE "clear_event"
    /\ UNCHANGED <<mf_window, mf_alpha, mf_buffers, mf_last, mf_in, mf_out,
                   cw_interval, cw_latest, cw_event, cw_stop, cw_last_emit, cw_stamp,
                   cw_now, cw_ppc, cw_pnow, cw_submitted, cw_queue, orch_vars,
                   edge_vars, prov_vars, md_vars>>

\* camera_streamer.py:51: `frame = self._latest.pop()`.
LoopPop ==
    /\ cw_pc = "pop"
    /\ cw_frame' = cw_latest
    /\ cw_latest' = 0
    /\ cw_pc' = "clear"
    /\ UNCHANGED <<mf_window, mf_alpha, mf_buffers, mf_last, mf_in, mf_out,
                   cw_interval, cw_event, cw_stop, cw_last_emit, cw_stamp, cw_now,
                   cw_ppc, cw_pnow, cw_submitted, cw_queue, orch_vars, edge_vars,
                   prov_vars, md_vars>>

\* camera_streamer.py:52: `self._latest.clear()`.
LoopClear ==
    /\ cw_pc = "clear"
    /\ cw_latest' = 0
    /\ cw_pc' = "clear_event"
    /\ UNCHANGED <<mf_window, mf_alpha, mf_buffers, mf_last, mf_in, mf_out,
                   cw_interval, cw_event, cw_stop, cw_last_emit, cw_frame, cw_stamp,
                   cw_now, cw_ppc, cw_pnow, cw_submitted, cw_queue, orch_vars,
                   edge_vars, prov_vars, md_vars>>

\* camera_streamer.py:53-55: `self._event.clear()`, then `continue` without a
\* frame.
LoopClearEvent ==
    /\ cw_pc = "clear_event"
    /\ cw_event' = FALSE
    /\ cw_pc' = IF cw_frame = 0 THEN "loop" ELSE "encode"
    /\ UNCHANGED <<mf_window, mf_alpha, mf_buffers, mf_last, mf_in, mf_out,
                   cw_interval, cw_latest, cw_stop, cw_last_emit, cw_frame, cw_stamp,
                   cw_now, cw_ppc, cw_pnow, cw_submitted, cw_queue, orch_vars,
                   edge_vars, prov_vars, md_vars>>

\* camera_streamer.py:56-63: _encode_frame stamps the payload with the clock,
\* or fails and the frame is skipped.
LoopEncode ==
    /\ cw_pc = "encode"
    /\ \/ /\ cw_stamp' = cw_now
          /\ cw_pc' = "enqueue"
          /\ cw_frame' = cw_frame
       \/ /\ cw_pc' = "loop"
          /\ cw_frame' = 0
          /\ cw_stamp' = cw_stamp
    /\ UNCHANGED <<mf_window, mf_alpha, mf_buffers, mf_last, mf_in, mf_out,
                   cw_interval, cw_latest, cw_event, cw_stop, cw_last_emit, cw_now,
                   cw_ppc, cw_pnow, cw_submitted, cw_queue, orch_vars, edge_vars,
                   prov_vars, md_vars>>

\* camera_streamer.py:64-65: the payload is put on the publisher's queue.
LoopEnqueue ==
    /\ cw_pc = "enqueue"
    /\ cw_queue' = Append(cw_queue, cw_stamp)
    /\ cw_pc' = "set_last"
    /\ UNCHANGED <<mf_window, mf_alpha, mf_buffers, mf_last, mf_in, mf_out,
                   cw_interval, cw_latest, cw_event, cw_stop, cw_last_emit, cw_frame,
                   cw_stamp, cw_now, cw_ppc, cw_pnow, cw_submitted, orch_vars,
                   edge_vars, prov_vars, md_vars>>

\* camera_streamer.py:66: _last_emit becomes the payload's timestamp.
LoopSetLastEmit ==
    /\ cw_pc = "set_last"
    /\ cw_last_emit' = cw_stamp
    /\ cw_frame' = 0
    /\ cw_pc' = "loop"
    /\ UNCHANGED <<mf_window, mf_alpha, mf_buffers, mf_last, mf_in, mf_out,
                   cw_interval, cw_latest, cw_event, cw_stop, cw_stamp, cw_now, cw_ppc,
                   cw_pnow, cw_submitted, cw_queue, orch_vars, edge_vars, prov_vars,
                   md_vars>>

\* The control loop publishing frames while the worker thread runs.
CameraNext ==
    \/ ClockTick
    \/ PublishEnter
    \/ PublishCheck
    \/ SubmitAppend
    \/ SubmitSignal
    \/ WorkerStop
    \/ LoopTest
    \/ LoopWait
    \/ LoopTestLatest
    \/ LoopPop
    \/ LoopClear
    \/ LoopClearEvent
    \/ LoopEncode
    \/ LoopEnqueue
    \/ LoopSetLastEmit

\* The control service after construction, with the default filter and a rate
\* limited camera source.
ControlInit ==
    /\ FilterInit
    /\ FilterSettings(WindowSize, 0)
    /\ CameraInit
    /\ CameraSettings(MinInterval)

\* ------------------------------------------------------------ initial states
\* The orchestrator process and an edge process with the default settings.
Init ==
    /\ OrchInit
    /\ ServerSettings(ApiToken)
    /\ EdgeInit
    /\ AIInit
    /\ MDInit
    /\ ControlInit
    /\ DCInit
    /\ DataSettings(TargetEpisodes, ShortEpisode, ShortReset)
    /\ EdgeSettings(MaxRetries, MaxMissedActions, None)

\* An edge process started with any of the settings.
InitEdge ==
    /\ OrchInit
    /\ ServerSettings(ApiToken)
    /\ EdgeInit
    /\ AIInit
    /\ MDInit
    /\ ControlInit
    /\ DCInit
    /\ DataSettings(TargetEpisodes, ShortEpisode, ShortReset)
    /\ \E r \in 0..MaxRetriesCfg, m \in 0..MaxMissedCfg, f \in {None, "fb"} :
         EdgeSettings(r, m, f)

\* The AI provider driven by the RPC thread and the dispatcher thread.
SpecAI == Init /\ [][AINext]_vars

\* A data-collection provider configured with or without a target and a reset
\* window.
InitData ==
    /\ OrchInit
    /\ ServerSettings(ApiToken)
    /\ EdgeInit
    /\ EdgeSettings(MaxRetries, MaxMissedActions, None)
    /\ AIInit
    /\ MDInit
    /\ ControlInit
    /\ DCInit
    /\ \E target \in {0, TargetEpisodes}, reset_ticks \in {0, ShortReset} :
         DataSettings(target, ShortEpisode, reset_ticks)

SpecData == InitData /\ [][DCNext]_vars

InitEpisode ==
    /\ OrchInit
    /\ ServerSettings(ApiToken)
    /\ EdgeInit
    /\ EdgeSettings(MaxRetries, MaxMissedActions, None)
    /\ AIInit
    /\ MDInit
    /\ ControlInit
    /\ DCInit
    /\ DataSettings(ScenarioEpisodes, ScenarioEpisode, ScenarioReset)

SpecEpisode == InitEpisode /\ [][EpisodeNext]_vars

SpecDispatch == Init /\ [][DispatchNext]_vars

SpecEdge == InitEdge /\ [][EdgeNext]_vars

SpecExchange == Init /\ [][ExchangeNext]_vars

\* A control service with any of the filter settings.
InitFilter ==
    /\ OrchInit
    /\ ServerSettings(ApiToken)
    /\ EdgeInit
    /\ EdgeSettings(MaxRetries, MaxMissedActions, None)
    /\ AIInit
    /\ MDInit
    /\ DCInit
    /\ DataSettings(TargetEpisodes, ShortEpisode, ShortReset)
    /\ CameraInit
    /\ CameraSettings(MinInterval)
    /\ FilterInit
    /\ \E window \in {1, WindowSize}, alpha \in {0, 1} : FilterSettings(window, alpha)

SpecFilter == InitFilter /\ [][FilterNext]_vars

\* A camera worker with or without a rate limit.
InitCamera ==
    /\ OrchInit
    /\ ServerSettings(ApiToken)
    /\ EdgeInit
    /\ EdgeSettings(MaxRetries, MaxMissedActions, None)
    /\ AIInit
    /\ MDInit
    /\ DCInit
    /\ DataSettings(TargetEpisodes, ShortEpisode, ShortReset)
    /\ FilterInit
    /\ FilterSettings(WindowSize, 0)
    /\ CameraInit
    /\ \E interval \in {0, MinInterval} : CameraSettings(interval)

SpecCamera == InitCamera /\ [][CameraNext]_vars

\* ------------------------------------------------------------ specification
Next ==
    \/ RunStart
    \/ RpcLoop
    \/ RpcInterrupt
    \/ RpcRecv
    \/ KillServer
    \/ GetActionLocked
    \/ GetActionCompute
    \/ GetActionReply
    \/ RpcSend
    \/ RpcError
    \/ RpcUnauthorized
    \/ HandlePing
    \/ RpcClose
    \/ MainStop
    \/ ModeEvent
    \/ ModeIdleClear
    \/ InitiateShutdown
    \/ WaitAcknowledged
    \/ WaitTimedOut
    \/ \E t \in Threads : SetActiveProvider(t)

Spec == Init /\ [][Next]_vars

\* A command service started with or without an API token.
InitServer ==
    /\ OrchInit
    /\ EdgeInit
    /\ AIInit
    /\ MDInit
    /\ ControlInit
    /\ DCInit
    /\ DataSettings(TargetEpisodes, ShortEpisode, ShortReset)
    /\ EdgeSettings(MaxRetries, MaxMissedActions, None)
    /\ \E token \in {None, ApiToken} : ServerSettings(token)

SpecServer == InitServer /\ [][Next]_vars

\* ----------------------------------------------------------------- claims
PreparedProviders == {k \in Providers : pstate[k] = "Prepared"}

\* C1: at any moment at most one provider is in the Prepared state.
C1_AtMostOnePrepared == Cardinality(PreparedProviders) <= 1

\* C2: compute_command is only ever invoked on a provider that is Prepared at
\* the time of the call.
C2_ComputeOnlyOnPrepared == computed.key # None => computed.prepared

\* C3: prepare() and shutdown() of a provider alternate (no shutdown() of a
\* provider that is not prepared, no prepare() of one that is), and no provider
\* is left prepared when the orchestrator's run has returned.
C3_PrepareShutdownPaired ==
    /\ paired
    /\ pc["rpc"] = "returned" => PreparedProviders = {}

\* The step on which the new provider's prepare() raises inside thread t's
\* set_active_provider call.
PrepareRaised(t) ==
    /\ pc[t] = "prepare"
    /\ pc'[t] \notin {"prepare", "commit_key"}

\* C4: when prepare() of the new provider raises, the exception reaches the
\* caller, the previously active provider has been shut down, no provider is
\* active, the prepared set is empty and the lock is released.
C4_FailedPrepareLeavesNoneActive ==
    [][\A t \in Threads :
         PrepareRaised(t) =>
            /\ pc'[t] = AfterCall(t, ctx[t], "ConnectionError")
            /\ t = "mode" => mode_result' = "ConnectionError"
            /\ sap_prev[t] # None => pstate'[sap_prev[t]] = "Unprepared"
            /\ active_key' = None
            /\ prepared' = {}
            /\ lock' = None]_vars

\* The step on which thread t's set_active_provider call with an unregistered
\* key is decided.
UnknownKeyCall(t) ==
    /\ pc[t] = "sap_enter"
    /\ pc'[t] # "sap_enter"
    /\ sap_key[t] \notin Providers

\* C5: set_active_provider with an unregistered key raises ValueError and
\* changes nothing: the active provider, its prepared status, the mode and the
\* observation hint stay as they were and no provider is shut down or prepared.
C5_UnknownKeyChangesNothing ==
    [][\A t \in Threads :
         UnknownKeyCall(t) =>
            /\ pc'[t] = AfterCall(t, ctx[t], "ValueError")
            /\ t = "mode" => mode_result' = "ValueError"
            /\ UNCHANGED <<active_key, prepared, current_mode, hint, pstate, lock>>]_vars

\* A call with an unregistered key has ended in ValueError while a provider is
\* active and prepared.
C5_Witness ==
    /\ mode_result = "ValueError"
    /\ pc["mode"] = "idle"
    /\ active_key \in Providers
    /\ active_key \in prepared
    /\ pstate[active_key] = "Prepared"

C7_NotifiedOnlyAfterDelivery == shutdown_notified => status_delivered

\* C8: once the shutdown status reply has been delivered the run loop exits:
\* the server does not go back to waiting for a request.
C8_LoopExitsAfterShutdownReply == status_delivered => pc["rpc"] # "recv"

\* C9: when the reply to get_action is the shutdown status envelope the edge
\* loop applies no action on that tick and breaks out of the loop: run ends by
\* the ordered `break`, not by an exception.
C9_EdgeBreaksOnShutdownStatus ==
    e_reply = "status" => (e_pc = "done" /\ e_applied = None /\ e_exit = "break")

\* The observation has an array of rank 2 or more.
HasImage(obs) == "rank3" \in obs

\* C10: when the provider get_action resolved wants full observations and the
\* observation has no array of rank 2 or more, the reply carries an action with
\* an empty dictionary and compute_command is not invoked.
C10_EmptyActionWithoutImages ==
    (/\ pc["rpc"] \in {"ga_reply", "send", "error"}
     /\ rpc_req.endpoint = "get_action"
     /\ rpc_provider # None
     /\ WantsFull(rpc_provider)
     /\ ~HasImage(rpc_req.obs)) =>
        /\ pc["rpc"] # "error"
        /\ rpc_result.kind = "action"
        /\ rpc_result.empty
        /\ computed = NoCompute

\* The AI provider is active and prepared, the observation has only a rank-1
\* array, and the reply about to be sent carries the empty action.
C10_Witness ==
    /\ pc["rpc"] = "send"
    /\ rpc_provider = "infer"
    /\ active_key = "infer"
    /\ pstate["infer"] = "Prepared"
    /\ rpc_req.obs = {"scalar", "rank1"}
    /\ rpc_result.kind = "action"
    /\ rpc_result.empty

\* A tick of the edge loop on which get_action timed out.
TimeoutTick ==
    /\ e_pc = "call"
    /\ e_pc' = "tick"
    /\ e_reply' = "timeout"

\* C12: on a tick whose get_action times out the miss counter goes up by one;
\* if it then exceeds max_missed_actions the zero action is applied and the
\* counter is reset, otherwise the configured fallback is applied if there is
\* one, else the last applied action.  With max_missed_actions = 2 and a
\* fallback, three timeouts in a row apply fallback, fallback, zero.  Whatever
\* ends a tick, the applied action is a reply action, the fallback, the last
\* applied action or the zero action.
C12_FallbackLadder ==
    [][/\ TimeoutTick =>
            /\ IF e_missed + 1 > e_max_missed
               THEN e_applied' = "zero" /\ e_missed' = 0
               ELSE /\ e_missed' = e_missed + 1
                    /\ e_applied' = (IF e_fallback # None THEN e_fallback ELSE e_last)
            /\ (e_max_missed = 2 /\ e_fallback = "fb" /\ Len(e_trail') >= 3) =>
                   SubSeq(e_trail', 1, 3) = <<"fb", "fb", "zero">>
       /\ (e_pc = "call" /\ e_pc' = "tick") =>
            e_applied' \in (ReplyActions \cup {e_fallback, e_last, "zero"}) \ {None}]_vars

\* The third timeout in a row with max_missed_actions = 2 and a fallback.
C12_Witness ==
    /\ e_max_missed = 2
    /\ e_fallback = "fb"
    /\ e_reply = "timeout"
    /\ e_trail = <<"fb", "fb", "zero">>
    /\ e_applied = "zero"
    /\ e_missed = 0

\* C13: timeouts are never fatal to the edge loop: CommandLoop.run does not
\* end with an exception raised because an earlier request timed out (the send
\* refused on the socket that the timed-out request left open).
C13_TimeoutNeverFatal ==
    ~(e_pc = "done" /\ e_exit = "RuntimeError" /\ e_reply = "efsm")

\* C14: an {error} reply to get_action makes the edge loop apply its fallback
\* ladder on that tick and keep running.
C14_ErrorReplyFallsBack ==
    e_reply = "error" => (e_pc = "tick" /\ e_applied # None /\ e_exit = None)

\* One attempt of compute_action.
AttemptStep ==
    /\ e_pc = "call"
    /\ e_pc' # "call" \/ e_attempt' # e_attempt

\* C15: compute_action makes at most max_retries + 1 attempts; a timeout or a
\* transport error within the budget reinitialises the socket and retries; the
\* one that exhausts the budget surfaces as a timeout error if it was a
\* timeout (the loop then applies its fallback) and as a transport error
\* otherwise.
C15_RetryBudget ==
    [][AttemptStep =>
         /\ e_attempt' <= e_max_retries
         /\ e_reply' \in {"timeout", "zmqerror", "efsm"} =>
               IF e_attempt < e_max_retries
               THEN e_pc' = "call" /\ e_attempt' = e_attempt + 1 /\ e_sock' = "ready"
               ELSE IF e_reply' = "timeout"
               THEN e_pc' = "tick" /\ e_applied' # None /\ e_exit' = None
               ELSE e_pc' = "done" /\ e_exit' = "RuntimeError"]_vars

\* With max_retries = 1 the second attempt failed on the transport and the
\* error was surfaced.
C15_Witness ==
    /\ e_max_retries = 1
    /\ e_attempt = 1
    /\ e_reply = "zmqerror"
    /\ e_exit = "RuntimeError"

\* C16: every call of compute_action starts on a socket that is ready to send,
\* also after a timeout that exhausted the retry budget of the previous call.
C16_SocketReadyForNextRequest ==
    (e_pc = "call" /\ e_attempt = 0) => e_sock = "ready"

\* The handler's step past service.py:58-63 and its step past line 71.
ComputeStep == pc["rpc"] = "ga_compute" /\ pc'["rpc"] # "ga_compute"

ReplyStep == pc["rpc"] = "ga_reply" /\ pc'["rpc"] = "send"

ReceiveStep == rpc_req = NoRequest /\ rpc_req' # NoRequest

\* BaseZMQServer.run leaves its loop (transport.py:112, 136, 139).
LoopExitStep ==
    /\ pc["rpc"] \in {"loop", "recv", "error"}
    /\ pc'["rpc"] = "sa_check"

\* C17: on the REP socket every request received is answered exactly once, and
\* the reply is sent before the next request is received or the loop is left
\* (handler success, unauthorized token, unknown endpoint, handler exception).
C17_OneReplyPerRequest ==
    [][/\ rpc_unanswered' \in {0, 1}
       /\ ReceiveStep => rpc_unanswered = 0
       /\ LoopExitStep => rpc_unanswered = 0]_vars

\* A reply was sent, nothing is unanswered and the server waits for the next
\* request.
C17_Witness ==
    /\ pc["rpc"] = "recv"
    /\ rpc_unanswered = 0
    /\ status_delivered
    /\ running

\* The server has a token and the request carries none or another one.
Unauthorized(request) ==
    /\ api_token # None
    /\ request # NoRequest
    /\ request.api_token # api_token

\* What a request can change in the command service and its providers.
server_state == <<active_key, prepared, lock, current_mode, hint,
                  shutdown_requested, shutdown_notified, running, pstate,
                  computed, status_delivered, ai_instruction, api_token>>

\* C18: with a token configured, a request whose api_token is missing or
\* different reaches no endpoint handler; it is answered once with the
\* Unauthorized error, that step leaves the server state as it was, and the
\* loop goes on to receive the next request.
C18_UnauthorizedNeverHandled ==
    [][/\ Unauthorized(rpc_req') =>
            /\ pc'["rpc"] = "unauthorized"
            /\ rpc_result'.kind = "unauthorized"
            /\ computed' = NoCompute
       /\ (Unauthorized(rpc_req) /\ rpc_req' = NoRequest) =>
            /\ rpc_unanswered' = 0
            /\ pc'["rpc"] = "loop"
            /\ running'
            /\ UNCHANGED server_state]_vars

\* A kill request without a token is about to be answered Unauthorized by a
\* server that has a token.
C18_Witness ==
    /\ pc["rpc"] = "unauthorized"
    /\ api_token = ApiToken
    /\ rpc_req.endpoint = "kill"
    /\ rpc_req.api_token = None
    /\ running

\* compute_command calls the inference server (ai.py:85).
AIInferStep == ai_pc = "infer" /\ ai_pc' = "append"

\* compute_command, entered with an instruction set, returns (ai.py:122-125).
AIReturnStep == ai_pc = "pop" /\ ai_pc' = "idle"

\* C19: with an instruction set, compute_command calls the inference server
\* only when pending is empty; every call pops and returns the head of pending;
\* the call that fetched a chunk returns its element 0 and each later call
\* returns the element after the one the previous call returned, without
\* another inference call, until the chunk is used up.
C19_ChunkServedInOrder ==
    [][/\ AIInferStep => ai_pending = <<>>
       /\ AIReturnStep =>
            /\ ai_pending # <<>>
            /\ ai_returned' = Head(ai_pending)
            /\ ai_pending' = Tail(ai_pending)
            /\ IF ai_inferred
               THEN ai_returned' = Element(ai_chunks, 0)
               ELSE /\ ai_returned.kind = "element"
                    /\ ai_returned' = Element(ai_returned.chunk, ai_returned.index + 1)]_vars

\* No prepare, shutdown, control command or compute tick is in progress.
DCQuiescent == \A t \in DCThreads : dc_pc[t] = "idle"

\* C20: whenever no operation of the data-collection provider is in progress
\* and the provider is in Recording or Reset, its state deadline is set.
C20_DeadlineWhileTimed ==
    (DCQuiescent /\ dc_state \in {"record", "reset"}) => dc_deadline # None

RerecordStep(t) ==
    /\ dc_pc[t] = "finalize"
    /\ dc_ctx[t].branch = "record"
    /\ "rerecord_episode" \in dc_events
    /\ dc_pc'[t] = "begin_state"

\* C23: a rerecord taken while Recording restarts the recording with the
\* buffer cleared and without the episode being persisted: no episode is
\* added to the dataset and episodes_recorded is unchanged.
C23_RerecordDiscards ==
    [][\A t \in DCThreads :
         RerecordStep(t) =>
           /\ dc_buffer' = 0
           /\ dc_sink' = dc_sink
           /\ dc_episodes' = dc_episodes]_vars

\* compute_command buffers a frame (data.py:249).
AddFrameStep ==
    /\ dc_pc["rpc"] = "frame"
    /\ dc_recording /\ dc_dataset
    /\ dc_pc'["rpc"] = "update"

\* C22: while a positive target is reached (episodes_recorded >= num_episodes)
\* no frame is buffered and, between operations, the provider is not
\* Recording.
C22_NoFrameBeyondTarget ==
    [][TargetReached(dc_target, dc_episodes) =>
         /\ ~AddFrameStep
         /\ DCQuiescent => dc_state # "record"]_vars

\* shutdown writes the state (data.py:199), or prepare starts the first
\* recording (data.py:162 / 315).
ShutdownOrPrepareStep ==
    \/ dc_pc["disp"] = "shut_state" /\ dc_pc'["disp"] = "shut_deadline"
    \/ /\ dc_pc["disp"] = "begin_state" /\ dc_pc'["disp"] = "begin_rec"
       /\ dc_ctx["disp"] = InPrepare

\* C26: while the provider is in Complete no frame is buffered, and the state
\* changes only by a shutdown or a prepare.
C26_CompleteIsTerminal ==
    [][dc_state = "complete" =>
         /\ ~AddFrameStep
         /\ dc_state' # "complete" => ShutdownOrPrepareStep]_vars

\* shutdown drops the dataset (data.py:196).
DisposeStep == dc_pc["disp"] = "shut_dataset" /\ dc_pc'["disp"] = "shut_state"

\* C25: when shutdown drops the dataset of a provider in Recording, no frame
\* is left in the episode buffer: the frames buffered were saved before.
C25_FlushBeforeDispose ==
    [][(DisposeStep /\ dc_state = "record") => dc_buffer = 0]_vars

\* The tick that ends the recording of episode j when an episode takes
\* `episode` ticks and a reset `reset` ticks.
SavedAt(j, episode, reset) == (j - 1) * (episode + reset) + episode

\* Episodes saved by the end of tick k.
SavedAfter(k) ==
    Cardinality({j \in 1..dc_target : SavedAt(j, dc_episode_ticks, dc_reset_ticks) <= k})

\* The state at the end of tick k: Complete once every episode is saved,
\* Reset for the reset time after a save, Recording otherwise.
StateAfter(k) ==
    LET saved == SavedAfter(k)
    IN  IF saved = dc_target THEN "complete"
        ELSE IF saved > 0 /\ k < SavedAt(saved, dc_episode_ticks, dc_reset_ticks) + dc_reset_ticks
        THEN "reset"
        ELSE "record"

\* Frames buffered at the end of tick k: one per tick of the current recording.
FramesAfter(k) ==
    LET saved == SavedAfter(k)
    IN  IF StateAfter(k) # "record" THEN 0
        ELSE IF saved = 0 THEN k
        ELSE k - (SavedAt(saved, dc_episode_ticks, dc_reset_ticks) + dc_reset_ticks)

\* C24: with one get_action per tick and no control command, at the end of
\* every tick the provider is in the state of the schedule (Recording for the
\* episode time, Reset for the reset time, ..., Complete after the last
\* episode), has saved exactly the episodes whose recording has ended, and
\* holds one frame per tick of the current recording and none in Reset and
\* Complete.
C24_EpisodeSchedule ==
    (DCQuiescent /\ dc_dataset /\ dc_state # "idle") =>
      /\ dc_state = StateAfter(dc_ticks)
      /\ dc_sink = SavedAfter(dc_ticks)
      /\ dc_episodes = SavedAfter(dc_ticks)
      /\ dc_recording = (dc_state = "record")
      /\ dc_buffer = IF FramesAfter(dc_ticks) < MaxFrames
                     THEN FramesAfter(dc_ticks) ELSE MaxFrames

\* Both episodes are saved, the provider is Complete and ticks go on.
C24_Witness ==
    /\ DCQuiescent
    /\ dc_state = "complete"
    /\ dc_sink = ScenarioEpisodes
    /\ dc_buffer = 0
    /\ dc_ticks > SavedAt(ScenarioEpisodes, ScenarioEpisode, ScenarioReset)

\* The dispatcher thread takes an event off the queue for the listener
\* (socket.py:162).
DeliverStep == md_dpc = "get" /\ md_dpc' = "call"

\* C27: the k-th event handed to the listener is the k-th event the
\* dispatcher accepted, whichever client threads put the events and however
\* their puts interleave, and the listener is called with one event at a time.
C27_DeliveredInOrder ==
    [][DeliverStep =>
         /\ md_event = NoEvent
         /\ md_event'.id = md_done + 1]_vars

\* The listener runs on the first event of a two-event line of one client
\* while the event the other client put in between and the second event of
\* the line wait in the queue.
C27_Witness ==
    /\ md_dpc = "call"
    /\ md_event = [kind |-> "teleop", arg |-> "leader", id |-> 1]
    /\ md_queue = <<[kind |-> "infer", arg |-> "go", id |-> 2],
                    [kind |-> "data", arg |-> "stop", id |-> 3]>>
    /\ md_line["c1"] = [kind |-> "object", key |-> "data",
                        value |-> Mapping("leader", "stop")]
    /\ md_enq["c1"] = 2
    /\ md_count = 3

\* Client thread c is done with the line it read.
LineDone(c) == md_pc[c] # "read" /\ md_pc'[c] = "read"

\* The object has one of the keys enqueue_mode_command knows.
Recognised(line) ==
    line.kind = "object" /\ line.key \in {"data", "teleop", "infer", "idle", "shutdown"}

\* C28: a step sends a response line only when it ends the handling of a
\* line that is not blank, and then exactly one, to the client of the line:
\* OK if and only if the line is a recognised JSON object and at least one
\* event was put on the queue for it; otherwise an ERROR line, with no event
\* put on the queue, which is "ERROR: unsupported command" for an object that
\* is not recognised.
C28_OneResponsePerLine ==
    [][/\ (\A c \in MClients : ~LineDone(c)) => md_out' = NoResponse
       /\ \A c \in MClients :
            LineDone(c) =>
              IF Blank(md_line[c]) THEN md_out' = NoResponse
              ELSE /\ md_out'.client = c
                   /\ md_out'.text = "OK" <=> (Recognised(md_line[c]) /\ md_enq[c] >= 1)
                   /\ md_out'.text # "OK" =>
                        /\ md_out'.text \in {"ERROR: invalid JSON",
                                             "ERROR: command must be a JSON object",
                                             "ERROR: unsupported command"}
                        /\ md_enq[c] = 0
                   /\ (md_line[c].kind = "object" /\ ~Recognised(md_line[c])) =>
                        md_out'.text = "ERROR: unsupported command"]_vars

\* An object was answered with "unsupported command" and no event has been
\* put on the queue.
C28_Witness ==
    /\ md_pc["c1"] = "read"
    /\ md_out = [client |-> "c1", text |-> "ERROR: unsupported command"]
    /\ md_count = 0

\* C29: the listener call for a Data event is in the branch that hands the
\* command to the data-collection provider's handle_control_command.
C29_DataEventControlsProvider ==
    (md_dpc = "call" /\ md_event.kind = "data") => md_handled = "control"

\* The step on which _handle_get_action calls provider.compute_command
\* (service.py:63) on the provider it resolved at lines 51-57.
ComputeCallStep ==
    /\ pc["rpc"] = "ga_compute"
    /\ pc'["rpc"] # "ga_compute"
    /\ ~SkipsProvider(rpc_provider, rpc_req.obs)

\* C30: the active provider is exclusively held: compute_command for a
\* get_action never executes while another thread is inside
\* set_active_provider (holding the orchestrator lock between its
\* _shutdown_active and its commit), so a switch takes effect atomically
\* between get_action computations.
C30_ComputeExclusive == [][ComputeCallStep => lock = None]_vars

\* A step of set_instruction, clear_instruction, prepare or shutdown of the AI
\* provider: the dispatcher thread stores the instruction or empties
\* pending while compute_command's position does not move.
DispatcherTouchesFifo ==
    /\ ai_pc' = ai_pc
    /\ \/ ai_instruction' # ai_instruction
       \/ ai_pending # <<>> /\ ai_pending' = <<>>

\* C31: the pending-actions FIFO is mutated on the RPC thread only: no
\* set_instruction or clear_instruction of the dispatcher thread executes
\* while compute_command is between its check of the FIFO and its pop.
C31_FifoConfinedToRpcThread == [][DispatcherTouchesFifo => ai_pc = "idle"]_vars

\* C37: with an instruction set, compute_command never returns an action of
\* an inference request that carried another instruction, also when
\* set_instruction or clear_instruction ran while that request was in flight.
C37_NoActionOfPreviousInstruction ==
    [][(/\ AIReturnStep
        /\ ai_returned'.kind = "element"
        /\ ai_instruction # None
        /\ ai_requested # None) => ai_requested = ai_instruction]_vars

\* C33: a key that was absent from the previous action map the filter was
\* applied to has been forgotten: when it appears again its output is the new
\* sample, as for a first sample.
C33_AbsentKeyForgotten ==
    [][\A k \in FKeys :
          (/\ mf_in.keys # {}
           /\ k \in mf_in'.keys
           /\ k \notin mf_in.keys) => mf_out'.val[k] = mf_in'.val[k]]_vars

\* C34: the worker never discards the frame in the slot: the worker step that
\* empties the slot takes that frame for encoding.
C34_WorkerNeverDiscards ==
    [][(cw_latest # 0 /\ cw_latest' = 0) => cw_frame' = cw_latest]_vars

\* C35: with min_interval > 0, the payloads one worker put on the publisher's
\* queue are at least min_interval apart.
C35_PayloadsMinIntervalApart ==
    \A i \in 1..(Len(cw_queue) - 1) : cw_queue[i + 1] - cw_queue[i] >= cw_interval

\* shutdown of the data-collection provider returns (data.py:202).
ShutdownReturnStep ==
    /\ dc_pc["disp"] = "shut_deadline"
    /\ dc_pc'["disp"] = "idle"

\* C36: when shutdown returns, the dataset reference is cleared, the state is
\* Idle and the deadline is null, whatever the teleop mode.
C36_ShutdownTearsDown ==
    [][ShutdownReturnStep =>
         /\ ~dc_dataset'
         /\ dc_state' = "idle"
         /\ dc_deadline' = None]_vars

\* The dispatcher thread starts handling a TeleopTo event whose alias resolves
\* to no registered provider (mode_manager.py:45-52).
UnknownTeleopStep ==
    /\ pc["mode"] = "idle"
    /\ pc'["mode"] = "sap_enter"
    /\ ctx'["mode"] = "teleop"
    /\ sap_key'["mode"] \notin Providers

\* C38: handling a TeleopTo event with an unknown alias does not modify the AI
\* provider's stored instruction.
C38_UnknownAliasKeepsInstruction ==
    [][UnknownTeleopStep => ai_instruction' = ai_instruction]_vars

\* C39: a mode event whose handling fails does not stop mode dispatch: the
\* dispatcher thread is never ended by a failure of the listener, so the events
\* accepted afterwards are still delivered.
C39_DispatchSurvivesFailure == pc["mode"] # "dead"

\* prepare returns having started a recording session (data.py:162).
PrepareStartsSession ==
    /\ dc_ctx["disp"] = InPrepare
    /\ dc_ctx'["disp"] # InPrepare
    /\ dc_state' = "record"

\* C40: when prepare has started a recording session, no control flag latched
\* before that prepare is still set, so nothing but the deadline ends the
\* first episode unless a new control command arrives.
C40_NoFlagSurvivesPrepare == [][PrepareStartsSession => dc_events' = {}]_vars

\* Positions inside _update_state and the transition it ends with.
EvaluationSteps ==
    {"finalize", "begin_state", "begin_rec", "begin_deadline", "reset_state",
     "reset_rec", "reset_deadline", "complete_state", "complete_rec",
     "complete_deadline", "complete_events"}

\* C32: a state evaluation started by handle_control_command on the dispatcher
\* thread never overlaps the frame buffering or the state evaluation of a
\* compute_command call on the RPC thread.
C32_EvaluationsExclusive ==
    ~(/\ dc_pc["disp"] \in EvaluationSteps
      /\ dc_ctx["disp"] # InPrepare
      /\ dc_pc["rpc"] \in EvaluationSteps \cup {"frame", "update"})

====
